---- MODULE Spec2Model ----
(***************************************************************************)
(* Classroom discussion tool: the Persistence Gateway (src/database.py),   *)
(* the student session of the Session Reconciliation Protocol and the      *)
(* teacher session (src/app.py), over a shared SQLite store.               *)
(*                                                                         *)
(* A store row carries its AUTOINCREMENT id, so two inserts are two rows.  *)
(* A Streamlit script run is two steps: the top of the script (the         *)
(* automatic check) and the handler of the widget that triggered the run;  *)
(* other sessions' gateway calls may fall between the two.                 *)
(***************************************************************************)
EXTENDS Integers, Sequences, FiniteSets, TLC

VARIABLES classrooms, students, answers, sess, teacher, last, aicall, conn

vars == <<classrooms, students, answers, sess, teacher, last, aicall, conn>>

(* ------------------------------ domains -------------------------------- *)

\* Python None / SQL NULL
None == "None"

\* class codes a 4-character generate_class_code() may return
Codes == {"AB12", "CD34"}

\* ids generate_student_id() may return
StudentIds == {"S-0001", "S-0002"}

\* question texts a teacher may type (non-empty ones pass validate_input)
Questions == {"Why is X?", "Why is Y?"}

\* the teacher id the app passes, and another one a gateway caller may pass
TeacherIds == {"teacher-1", "teacher-2"}

\* student browser sessions
Sessions == {"s1"}

\* most answer rows the students of the app submit
MaxAnswers == 1

\* most questions the teacher drafts
MaxQuestions == 2

(* --------------------------- text handling ----------------------------- *)

\* str.strip(): drop leading and trailing blanks of a sequence of characters
RECURSIVE LStrip(_)
RECURSIVE RStrip(_)
LStrip(t) == IF t # <<>> /\ Head(t) = " " THEN LStrip(Tail(t)) ELSE t

RStrip(t) == IF t # <<>> /\ t[Len(t)] = " " THEN RStrip(SubSeq(t, 1, Len(t) - 1)) ELSE t

\* no stripping: the text is used as typed
StripNothing(t) == t

Strip(t) == RStrip(LStrip(t))

(* ------------------------- Persistence Gateway ------------------------- *)

\* INTEGER PRIMARY KEY AUTOINCREMENT: rows are never deleted, so the next
\* id is one more than the largest id of the table
NextRowId(table) == IF table = {} THEN 1
                    ELSE 1 + (CHOOSE m \in {r.id : r \in table} : \A r \in table : r.id <= m)

\* SELECT COUNT(*) FROM classrooms WHERE class_code = ?
CountClassrooms(cls, class_code) == Cardinality({r \in cls : r.class_code = class_code})

\* create_classroom without the existence check: the INSERT always runs
create_classroom_unchecked(cls, class_code, teacher_id, question, fault) ==
    IF fault THEN [ret |-> FALSE, classrooms |-> cls]
    ELSE [ret |-> TRUE,
          classrooms |-> cls \cup {[id |-> NextRowId(cls), class_code |-> class_code,
                                    teacher_id |-> teacher_id, question |-> question,
                                    status |-> "active"]}]

\* Database.create_classroom; fault: the storage layer raises sqlite3.Error
create_classroom(cls, class_code, teacher_id, question, fault) ==
    IF fault THEN [ret |-> FALSE, classrooms |-> cls]
    ELSE IF CountClassrooms(cls, class_code) > 0 THEN [ret |-> FALSE, classrooms |-> cls]
    ELSE [ret |-> TRUE,
          classrooms |-> cls \cup {[id |-> NextRowId(cls), class_code |-> class_code,
                                    teacher_id |-> teacher_id, question |-> question,
                                    status |-> "active"]}]

\* add_student without the status check
add_student_any_status(cls, studs, student_id, class_code, fault) ==
    IF fault THEN [ret |-> FALSE, students |-> studs]
    ELSE IF CountClassrooms(cls, class_code) = 0 THEN [ret |-> FALSE, students |-> studs]
    ELSE IF \E r \in studs : r.student_id = student_id
         THEN [ret |-> FALSE, students |-> studs]
    ELSE [ret |-> TRUE,
          students |-> studs \cup {[id |-> NextRowId(studs), student_id |-> student_id,
                                    class_code |-> class_code]}]

\* add_student without the existence and status checks and without the
\* foreign-key pragma: only UNIQUE(student_id) can reject the INSERT
add_student_unchecked(cls, studs, student_id, class_code, fault) ==
    IF fault THEN [ret |-> FALSE, students |-> studs]
    ELSE IF \E r \in studs : r.student_id = student_id
         THEN [ret |-> FALSE, students |-> studs]
    ELSE [ret |-> TRUE,
          students |-> studs \cup {[id |-> NextRowId(studs), student_id |-> student_id,
                                    class_code |-> class_code]}]

\* add_student as INSERT OR REPLACE: a join with a student_id that is already
\* stored replaces that student's row
add_student_or_replace(cls, studs, student_id, class_code, fault) ==
    IF fault THEN [ret |-> FALSE, students |-> studs]
    ELSE IF CountClassrooms(cls, class_code) = 0 THEN [ret |-> FALSE, students |-> studs]
    ELSE IF \E r \in cls : r.class_code = class_code /\ r.status # "active"
         THEN [ret |-> FALSE, students |-> studs]
    ELSE [ret |-> TRUE,
          students |-> {r \in studs : r.student_id # student_id}
                       \cup {[id |-> NextRowId(studs), student_id |-> student_id,
                              class_code |-> class_code]}]

\* Database.add_student: PRAGMA foreign_keys = ON, existence check, status
\* check, then the INSERT, which the UNIQUE(student_id) constraint may reject
add_student(cls, studs, student_id, class_code, fault) ==
    IF fault THEN [ret |-> FALSE, students |-> studs]
    ELSE IF CountClassrooms(cls, class_code) = 0 THEN [ret |-> FALSE, students |-> studs]
    ELSE IF \E r \in cls : r.class_code = class_code /\ r.status # "active"
         THEN [ret |-> FALSE, students |-> studs]
    ELSE IF \E r \in studs : r.student_id = student_id
         THEN [ret |-> FALSE, students |-> studs]
    ELSE [ret |-> TRUE,
          students |-> studs \cup {[id |-> NextRowId(studs), student_id |-> student_id,
                                    class_code |-> class_code]}]

\* json.dumps of a list of strings, as stored in answers.suggestions
json_dumps(list) == [json |-> "list", items |-> list]

\* save_answer as an upsert: a resubmission replaces the student's earlier
\* row for the same classroom and question
save_answer_upsert(ans, student_id, class_code, question, answer, evaluation, fault) ==
    IF fault THEN [ret |-> FALSE, answers |-> ans]
    ELSE LET kept == {a \in ans : ~(a.student_id = student_id /\ a.class_code = class_code
                                     /\ a.question = question)}
         IN [ret |-> TRUE,
             answers |-> kept \cup {[id |-> NextRowId(ans), student_id |-> student_id,
                                     class_code |-> class_code, question |-> question,
                                     answer |-> answer, score |-> evaluation.score,
                                     feedback |-> evaluation.feedback,
                                     suggestions |-> json_dumps(evaluation.suggestions)]}]

\* Database.save_answer: a plain INSERT on a fresh connection; the
\* connection never issues PRAGMA foreign_keys = ON, so SQLite does not
\* enforce the two FOREIGN KEY clauses of the answers table
save_answer(ans, student_id, class_code, question, answer, evaluation, fault) ==
    IF fault THEN [ret |-> FALSE, answers |-> ans]
    ELSE [ret |-> TRUE,
          answers |-> ans \cup {[id |-> NextRowId(ans), student_id |-> student_id,
                                 class_code |-> class_code, question |-> question,
                                 answer |-> answer, score |-> evaluation.score,
                                 feedback |-> evaluation.feedback,
                                 suggestions |-> json_dumps(evaluation.suggestions)]}]

\* update_classroom_question without the WHERE clause: every row is updated
update_classroom_question_all_rows(cls, class_code, question, fault) ==
    IF fault THEN [ret |-> FALSE, classrooms |-> cls]
    ELSE [ret |-> TRUE, classrooms |-> {[r EXCEPT !.question = question] : r \in cls}]

\* Database.update_classroom_question: UPDATE ... WHERE class_code = ?
update_classroom_question(cls, class_code, question, fault) ==
    IF fault THEN [ret |-> FALSE, classrooms |-> cls]
    ELSE [ret |-> TRUE,
          classrooms |-> {IF r.class_code = class_code
                          THEN [r EXCEPT !.question = question] ELSE r : r \in cls}]

\* the value get_classroom_info returns for "no row" (Python None)
NoInfo == [found |-> FALSE, class_code |-> None, teacher_id |-> None,
           question |-> None, status |-> None]

\* get_classroom_info that only reports classrooms whose status is 'active'
get_classroom_info_active_only(cls, class_code, fault) ==
    IF fault \/ ~\E x \in cls : x.class_code = class_code /\ x.status = "active" THEN NoInfo
    ELSE LET r == CHOOSE x \in cls : x.class_code = class_code
         IN [found |-> TRUE, class_code |-> r.class_code, teacher_id |-> r.teacher_id,
             question |-> r.question, status |-> r.status]

\* Database.get_classroom_info: the row snapshot, or None
get_classroom_info(cls, class_code, fault) ==
    IF fault \/ CountClassrooms(cls, class_code) = 0 THEN NoInfo
    ELSE LET r == CHOOSE x \in cls : x.class_code = class_code
         IN [found |-> TRUE, class_code |-> r.class_code, teacher_id |-> r.teacher_id,
             question |-> r.question, status |-> r.status]

\* json.loads of the suggestions column, then the isinstance(list) check:
\* a payload that is not a list gives the empty list, and so do an empty
\* column (falsy, not parsed) and text that is not JSON (the JSONDecodeError
\* is caught for the row)
json_loads_column(column) == IF column.json = "list" THEN column.items ELSE <<>>

\* [str(s) for s in suggestions if s]: falsy items (empty strings) are dropped
RECURSIVE TruthyItems(_)
TruthyItems(items) ==
    IF items = <<>> THEN <<>>
    ELSE IF Head(items) = <<>> THEN TruthyItems(Tail(items))
         ELSE <<Head(items)>> \o TruthyItems(Tail(items))

\* rows in ORDER BY submitted_at DESC; every INSERT stamps datetime.now(),
\* so a later row (larger id) has the later submitted_at
RECURSIVE NewestFirst(_)
NewestFirst(rows) ==
    IF rows = {} THEN <<>>
    ELSE LET newest == CHOOSE r \in rows : \A x \in rows : x.id <= r.id
         IN <<newest>> \o NewestFirst(rows \ {newest})

\* ORDER BY submitted_at (ascending)
RECURSIVE OldestFirst(_)
OldestFirst(rows) ==
    IF rows = {} THEN <<>>
    ELSE LET oldest == CHOOSE r \in rows : \A x \in rows : r.id <= x.id
         IN <<oldest>> \o OldestFirst(rows \ {oldest})

\* FROM answers a JOIN students s ON a.student_id = s.student_id: an answer
\* row appears once for every student row with its student_id (at most one,
\* student_id being UNIQUE), and not at all when there is none
JoinedAnswers(ans, studs) == {a \in ans : \E r \in studs : r.student_id = a.student_id}

\* get_answers_for_question without the inner try/except: a payload that
\* json.loads rejects or that is not a list ends the whole call, which then
\* returns no rows
get_answers_for_question_strict(ans, studs, class_code, question, fault) ==
    LET matching == {a \in JoinedAnswers(ans, studs) :
                        a.class_code = class_code /\ a.question = question}
        results == NewestFirst(matching)
    IN IF fault \/ \E a \in matching : a.suggestions.json \notin {"list", "empty"} THEN <<>>
       ELSE [i \in 1..Len(results) |->
                [student_id |-> results[i].student_id, answer |-> results[i].answer,
                 score |-> results[i].score, feedback |-> results[i].feedback,
                 suggestions |-> TruthyItems(results[i].suggestions.items),
                 submitted_at |-> results[i].id]]

\* Database.get_answers_for_question: the list of answer views, or [] when
\* the storage layer raises
get_answers_for_question(ans, studs, class_code, question, fault) ==
    IF fault THEN <<>>
    ELSE LET results == NewestFirst({a \in JoinedAnswers(ans, studs) :
                                        a.class_code = class_code /\ a.question = question})
         IN [i \in 1..Len(results) |->
                [student_id |-> results[i].student_id, answer |-> results[i].answer,
                 score |-> results[i].score, feedback |-> results[i].feedback,
                 suggestions |-> TruthyItems(json_loads_column(results[i].suggestions)),
                 submitted_at |-> results[i].id]]

\* Database.get_classroom_students: no try/except around the query, so an
\* error of the storage layer leaves the function as an exception
get_classroom_students(studs, class_code, fault) ==
    IF fault THEN [raised |-> TRUE, list |-> <<>>]
    ELSE LET rows == OldestFirst({r \in studs : r.class_code = class_code})
         IN [raised |-> FALSE,
             list |-> [i \in 1..Len(rows) |-> [id |-> rows[i].student_id,
                                               joined_at |-> rows[i].id]]]

\* Database.get_classroom_data: the export rows, or an empty DataFrame
get_classroom_data(ans, studs, class_code, fault) ==
    IF fault THEN <<>>
    ELSE OldestFirst({a \in JoinedAnswers(ans, studs) : a.class_code = class_code})

\* Python truthiness of an optional string
Truthy(x) == x # None /\ x # ""

(* ------------------------------ AI service ----------------------------- *)

\* the three canned suggestions of get_simple_suggestions
default_suggestions ==
    << <<"Focus on addressing the main question more directly.">>,
       <<"Include specific examples to support your key points.">>,
       <<"Structure your answer with a clear introduction and conclusion.">> >>

Digits == {"0", "1", "2", "3", "4", "5", "6", "7", "8", "9"}

\* one line of the raw response -> the suggestion it yields (numbered
\* prefix "1." "2)" "3 " removed), for a stripped non-empty line
ParseLine(line) ==
    IF Len(line) > 2 /\ line[1] \in Digits /\ line[2] \in {".", ")", " "}
    THEN Strip(SubSeq(line, 3, Len(line)))
    ELSE line

\* the loop over raw_text.split('\n'): blank lines are skipped
RECURSIVE ParseLines(_)
ParseLines(lines) ==
    IF lines = <<>> THEN <<>>
    ELSE LET l == Strip(Head(lines))
         IN IF l = <<>> THEN ParseLines(Tail(lines))
            ELSE <<ParseLine(l)>> \o ParseLines(Tail(lines))

InSeq(x, seq) == \E i \in 1..Len(seq) : seq[i] = x

\* a padding step that takes the first default whether present or not
AppendFirstDefault(suggestions, defaults) == Append(suggestions, defaults[1])

\* first item of defaults that is not yet in suggestions, appended; the
\* list is returned unchanged when every default is already present
AppendFirstMissing(suggestions, defaults) ==
    IF \E i \in 1..Len(defaults) : ~InSeq(defaults[i], suggestions)
    THEN LET i == CHOOSE j \in 1..Len(defaults) :
                     /\ ~InSeq(defaults[j], suggestions)
                     /\ \A k \in 1..(j - 1) : InSeq(defaults[k], suggestions)
         IN Append(suggestions, defaults[i])
    ELSE suggestions

\* while len(suggestions) < 3: append the first missing default
RECURSIVE PadSuggestions(_)
PadSuggestions(suggestions) ==
    IF Len(suggestions) >= 3 THEN suggestions
    ELSE PadSuggestions(AppendFirstMissing(suggestions, default_suggestions))

\* AIService.get_simple_suggestions; resp.ok = FALSE: the provider call raised
get_simple_suggestions(resp) ==
    IF ~resp.ok THEN default_suggestions
    ELSE SubSeq(PadSuggestions(SubSeq(ParseLines(resp.lines), 1,
                    IF Len(ParseLines(resp.lines)) < 3 THEN Len(ParseLines(resp.lines)) ELSE 3)),
                1, 3)

\* raw responses of the AI provider
AIResponses ==
    { [ok |-> FALSE, lines |-> <<>>],
      [ok |-> TRUE,  lines |-> << <<"1", ".", " ", "Add an example">>, <<>>,
                                  <<" ", "Explain why">> >>] }

(* ----------------------- the evaluation normalizer --------------------- *)

\* A text is a sequence of characters; a run of characters that no operation
\* looks into (no blank, no upper case, no listed word or character inside)
\* is written as one element.

UpperCase == <<"A", "B", "C", "D", "E", "F", "G", "H", "I", "J", "K", "L", "M",
               "N", "O", "P", "Q", "R", "S", "T", "U", "V", "W", "X", "Y", "Z">>

LowerCase == <<"a", "b", "c", "d", "e", "f", "g", "h", "i", "j", "k", "l", "m",
               "n", "o", "p", "q", "r", "s", "t", "u", "v", "w", "x", "y", "z">>

\* str.lower()
Lower(text) ==
    [i \in 1..Len(text) |->
        IF \E k \in 1..26 : UpperCase[k] = text[i]
        THEN LowerCase[CHOOSE k \in 1..26 : UpperCase[k] = text[i]]
        ELSE text[i]]

\* word in text
Contains(word, text) ==
    \E i \in 1..(Len(text) - Len(word) + 1) : SubSeq(text, i, i + Len(word) - 1) = word

\* the characters evaluate_answer rejects, by code point: fullwidth comma,
\* ideographic full stop, xue, sheng, the two title marks, qing, ni
SuspiciousChars == {"U+FF0C", "U+3002", "U+5B66", "U+751F", "U+300A", "U+300B",
                    "U+8BF7", "U+4F60"}

\* the words evaluate_answer rejects, matched against the lower-cased text
SuspiciousWords == { <<"s", "c", "r", "i", "p", "t">>,
                     <<"r", "e", "f", "r", "e", "s", "h">>,
                     <<"s", "t", "u", "d", "e", "n", "t">>,
                     <<"c", "l", "i", "c", "k">> }

\* a JSON value below the top level: numbers in hundredths, l the items of
\* a list; "missing" stands for a key the object does not have
JV(t, n, s, l) == [t |-> t, n |-> n, s |-> s, l |-> l]

Missing == JV("missing", 0, <<>>, <<>>)

JNum(n) == JV("number", n, <<>>, <<>>)

\* json.loads accepts NaN
JNaN == JV("nan", 0, <<>>, <<>>)

JBool(b) == JV("bool", IF b THEN 100 ELSE 0, <<>>, <<>>)

JStr(s) == JV("string", 0, s, <<>>)

JList(l) == JV("list", 0, <<>>, l)

\* a top-level JSON value: an object with its three keys, or a non-object
JObject(score, feedback, suggestions) ==
    [t |-> "object", score |-> score, feedback |-> feedback, suggestions |-> suggestions]

NonObject(t) == [t |-> t, score |-> Missing, feedback |-> Missing, suggestions |-> Missing]

\* the parts of a response text: a code fence tagged json, a bare code
\* fence (three backquotes), prose that is not JSON, or the text of one
\* JSON value
Part(k, v) == [k |-> k, v |-> v]

FenceJson == Part("fence_json", NonObject("null"))

Fence == Part("fence", NonObject("null"))

Prose == Part("prose", NonObject("null"))

Json(v) == Part("json", v)

IsFence(p) == p.k \in {"fence_json", "fence"}

\* text.find / text.rfind of a part, as an index into the parts
FirstIndex(text, S) == CHOOSE i \in S : \A j \in S : i <= j

LastIndex(text, S) == CHOOSE i \in S : \A j \in S : j <= i

\* the fenced block: from behind the first json fence (else the first
\* fence) up to the last fence; the text itself when it holds no fence
ExtractFenced(text) ==
    LET json_fences == {i \in 1..Len(text) : text[i].k = "fence_json"}
        fences == {i \in 1..Len(text) : IsFence(text[i])}
    IN IF json_fences # {}
       THEN SubSeq(text, FirstIndex(text, json_fences) + 1, LastIndex(text, fences) - 1)
       ELSE IF fences # {}
       THEN SubSeq(text, FirstIndex(text, fences) + 1, LastIndex(text, fences) - 1)
       ELSE text

\* json.loads of a text: it parses when the text is one JSON value
json_loads(text) ==
    IF Len(text) = 1 /\ text[1].k = "json" THEN [ok |-> TRUE, v |-> text[1].v]
    ELSE [ok |-> FALSE, v |-> NonObject("null")]

\* the fallback: the text from the first "{" to the last "}"
JsonChunk(text) ==
    LET objects == {i \in 1..Len(text) : text[i].k = "json" /\ text[i].v.t = "object"}
    IN IF objects = {} THEN [ok |-> FALSE, v |-> NonObject("null")]
       ELSE json_loads(SubSeq(text, FirstIndex(text, objects), LastIndex(text, objects)))

\* the evaluation returned when no JSON can be found in the response
parse_default ==
    [score |-> 50,
     feedback |-> <<"Your answer was evaluated, but we could not generate detailed feedback.">>,
     suggestions |-> << <<"Address the key points in the question">>,
                        <<"Provide specific examples to support your answer">>,
                        <<"Structure your response with clear organization">> >>]

\* the evaluation returned by the outermost except
error_default ==
    [score |-> 50,
     feedback |-> <<"We encountered a problem evaluating your answer.">>,
     suggestions |-> << <<"Ensure your answer addresses the question directly">>,
                        <<"Include specific examples and details">>,
                        <<"Check your answer organization and clarity">> >>]

\* the default suggestions of evaluate_answer
evaluation_suggestions ==
    << <<"Focus on addressing the main points of the question">>,
       <<"Add more specific details and examples">>,
       <<"Improve the overall structure of your answer">> >>

\* max(0.0, min(1.0, float(score))); min(1.0, nan) is 1.0
ClampScore(v) ==
    IF v.t = "nan" THEN 100
    ELSE IF v.n > 100 THEN 100 ELSE IF v.n < 0 THEN 0 ELSE v.n

\* one suggestion of the response passes the filter
KeepSuggestion(item) ==
    /\ item.t = "string"
    /\ Strip(item.s) # <<>>
    /\ ~\E i \in 1..Len(Strip(item.s)) : Strip(item.s)[i] \in SuspiciousChars
    /\ ~\E word \in SuspiciousWords : Contains(word, Lower(Strip(item.s)))

\* the loop that builds clean_suggestions
RECURSIVE CleanSuggestions(_)
CleanSuggestions(items) ==
    IF items = <<>> THEN <<>>
    ELSE IF KeepSuggestion(Head(items))
         THEN <<Strip(Head(items).s)>> \o CleanSuggestions(Tail(items))
         ELSE CleanSuggestions(Tail(items))

\* suggestions[:3]
FirstThree(seq) == SubSeq(seq, 1, IF Len(seq) < 3 THEN Len(seq) ELSE 3)

\* while len(suggestions) < 3: append the first missing default
RECURSIVE PadWith(_, _)
PadWith(suggestions, defaults) ==
    IF Len(suggestions) >= 3 THEN suggestions
    ELSE PadWith(AppendFirstMissing(suggestions, defaults), defaults)

\* the field handling of evaluate_answer for a parsed object
NormalizeObject(evaluation) ==
    [score |-> IF evaluation.score.t \in {"number", "nan", "bool"}
               THEN ClampScore(evaluation.score) ELSE 50,
     feedback |-> IF evaluation.feedback.t = "string" THEN evaluation.feedback.s
                  ELSE <<"The answer could be improved for clarity and relevance.">>,
     suggestions |->
         IF evaluation.suggestions.t # "list" THEN evaluation_suggestions
         ELSE LET clean == CleanSuggestions(evaluation.suggestions.l)
              IN PadWith(FirstThree(IF clean = <<>> THEN evaluation_suggestions ELSE clean),
                         evaluation_suggestions)]

\* an evaluate_answer whose outermost except hands the exception text on
evaluate_answer_propagates(resp) ==
    IF ~resp.ok
    THEN [score |-> 0, feedback |-> <<"Error: ", "provider timeout">>, suggestions |-> <<>>]
    ELSE LET evaluation_text == ExtractFenced(resp.text)
             first == json_loads(evaluation_text)
             parsed == IF first.ok THEN first ELSE JsonChunk(evaluation_text)
         IN IF ~parsed.ok \/ parsed.v.t # "object"
            THEN [score |-> 0, feedback |-> <<"Error: ", "no JSON">>, suggestions |-> <<>>]
            ELSE NormalizeObject(parsed.v)

\* AIService.evaluate_answer from the provider's response on; resp.ok =
\* FALSE: the provider call raised. A parsed value that is not an object
\* raises TypeError at the first field access, which the outermost except
\* turns into error_default.
evaluate_answer(resp) ==
    IF ~resp.ok THEN error_default
    ELSE LET evaluation_text == ExtractFenced(resp.text)
             first == json_loads(evaluation_text)
             parsed == IF first.ok THEN first ELSE JsonChunk(evaluation_text)
         IN IF ~parsed.ok THEN parse_default
            ELSE IF parsed.v.t # "object" THEN error_default
            ELSE NormalizeObject(parsed.v)

(* --------------------------- student session --------------------------- *)

\* st.session_state attribute that was never assigned (answer_text,
\* answer_suggestions are only created by Submit Answer)
Absent == <<"absent">>

\* the session state after the initialisation block, for the class_code and
\* student_id found in the URL query parameters (None when not present)
InitSession(qp_class_code, qp_student_id) ==
    [class_code |-> qp_class_code, student_id |-> qp_student_id,
     current_question |-> None, answer_submitted |-> FALSE,
     evaluation_result |-> None, answer_text |-> Absent,
     answer_suggestions |-> Absent, video_request_id |-> None,
     video_url |-> None, generating_video |-> FALSE, show_video_form |-> FALSE,
     pending |-> "idle"]

\* an automatic check that resets the answer state whenever the classroom
\* is found, also when the question is the one already cached
AutoCheckAlwaysReset(st, db_info) ==
    IF db_info.found
    THEN [st EXCEPT !.current_question = db_info.question,
                    !.answer_submitted = FALSE,
                    !.video_url = None,
                    !.video_request_id = None,
                    !.generating_video = FALSE,
                    !.show_video_form = FALSE]
    ELSE st

\* an automatic check that only loads the first question of a session
AutoCheckFirstOnly(st, db_info) ==
    IF db_info.found /\ st.current_question = None
    THEN [st EXCEPT !.current_question = db_info.question,
                    !.answer_submitted = FALSE,
                    !.video_url = None,
                    !.video_request_id = None,
                    !.generating_video = FALSE,
                    !.show_video_form = FALSE]
    ELSE st

\* the automatic check at the top of the joined student view
AutoCheck(st, db_info) ==
    IF db_info.found /\ db_info.question # st.current_question
    THEN [st EXCEPT !.current_question = db_info.question,
                    !.answer_submitted = FALSE,
                    !.video_url = None,
                    !.video_request_id = None,
                    !.generating_video = FALSE,
                    !.show_video_form = FALSE]
    ELSE st

\* the Refresh Question handler
RefreshQuestion(st, db_info) ==
    IF db_info.found /\ Truthy(db_info.question) /\ db_info.question # st.current_question
    THEN [st EXCEPT !.current_question = db_info.question,
                    !.answer_submitted = FALSE,
                    !.evaluation_result = None,
                    !.video_url = None,
                    !.video_request_id = None,
                    !.generating_video = FALSE,
                    !.show_video_form = FALSE]
    ELSE st

\* the Next Question handler
NextQuestion(st, db_info) ==
    IF db_info.found /\ db_info.question # st.current_question
    THEN [st EXCEPT !.current_question = db_info.question,
                    !.answer_submitted = FALSE,
                    !.video_url = None,
                    !.video_request_id = None,
                    !.generating_video = FALSE,
                    !.show_video_form = FALSE]
    ELSE st

\* the Leave Class handler
LeaveClass(st) ==
    [st EXCEPT !.class_code = None, !.student_id = None,
               !.current_question = None, !.answer_submitted = FALSE,
               !.evaluation_result = None]

\* outcomes of create_video: (None, error) / (id, None) / (None, None) when
\* the 201 response carries no "id"
CreateOutcomes == {"error", "id", "no_id"}

\* outcomes of get_video_status: request error / done with result_url /
\* done without result_url / status "error" / any other status
PollOutcomes == {"req_error", "done_url", "done_no_url", "error", "other"}

\* the video form block; returns the state, whether st.rerun() ended the
\* run, and the st.error message the block left on the page ("none" when
\* it showed none)
VideoForm(st, ev, cv) ==
    IF ~(st.show_video_form /\ ~Truthy(st.video_url))
    THEN [st |-> st, rerun |-> FALSE, error |-> "none"]
    ELSE IF ev = "back" \/ ev = "form_cancel"
         THEN [st |-> [st EXCEPT !.show_video_form = FALSE], rerun |-> TRUE, error |-> "none"]
    ELSE IF ev = "form_submit" /\ cv # "error"
         THEN [st |-> [st EXCEPT !.video_request_id = IF cv = "id" THEN "v1" ELSE None,
                                 !.generating_video = TRUE,
                                 !.show_video_form = FALSE],
               rerun |-> TRUE, error |-> "none"]
    ELSE IF ev = "form_submit"
         THEN [st |-> st, rerun |-> FALSE, error |-> "Failed to create video"]
    ELSE [st |-> st, rerun |-> FALSE, error |-> "none"]

\* a status poll that stores the result URL but goes on generating
VideoPollKeepsGenerating(st, pv) ==
    IF ~(st.generating_video /\ Truthy(st.video_request_id))
    THEN [st |-> st, rerun |-> FALSE, error |-> "none"]
    ELSE IF pv = "req_error"
         THEN [st |-> [st EXCEPT !.generating_video = FALSE], rerun |-> FALSE,
               error |-> "Error checking video status"]
    ELSE IF pv = "error"
         THEN [st |-> [st EXCEPT !.generating_video = FALSE], rerun |-> FALSE,
               error |-> "Video generation failed"]
    ELSE IF pv = "done_url"
         THEN [st |-> [st EXCEPT !.video_url = "u1"], rerun |-> TRUE, error |-> "none"]
    ELSE IF pv = "other" THEN [st |-> st, rerun |-> TRUE, error |-> "none"]
    ELSE [st |-> st, rerun |-> FALSE, error |-> "none"]

\* a status poll that reports a failed generation and goes on polling
VideoPollIgnoresFailure(st, pv) ==
    IF ~(st.generating_video /\ Truthy(st.video_request_id))
    THEN [st |-> st, rerun |-> FALSE, error |-> "none"]
    ELSE IF pv = "req_error"
         THEN [st |-> [st EXCEPT !.generating_video = FALSE], rerun |-> FALSE,
               error |-> "Error checking video status"]
    ELSE IF pv = "error"
         THEN [st |-> st, rerun |-> FALSE, error |-> "Video generation failed"]
    ELSE IF pv = "done_url"
         THEN [st |-> [st EXCEPT !.video_url = "u1", !.generating_video = FALSE],
               rerun |-> TRUE, error |-> "none"]
    ELSE IF pv = "other" THEN [st |-> st, rerun |-> TRUE, error |-> "none"]
    ELSE [st |-> st, rerun |-> FALSE, error |-> "none"]

\* the status poll block
VideoPoll(st, pv) ==
    IF ~(st.generating_video /\ Truthy(st.video_request_id))
    THEN [st |-> st, rerun |-> FALSE, error |-> "none"]
    ELSE IF pv = "req_error"
         THEN [st |-> [st EXCEPT !.generating_video = FALSE], rerun |-> FALSE,
               error |-> "Error checking video status"]
    ELSE IF pv = "error"
         THEN [st |-> [st EXCEPT !.generating_video = FALSE], rerun |-> FALSE,
               error |-> "Video generation failed"]
    ELSE IF pv = "done_url"
         THEN [st |-> [st EXCEPT !.video_url = "u1", !.generating_video = FALSE],
               rerun |-> TRUE, error |-> "none"]
    ELSE IF pv = "other" THEN [st |-> st, rerun |-> TRUE, error |-> "none"]
    ELSE [st |-> st, rerun |-> FALSE, error |-> "none"]

\* the Generate New Video handler
NewVideo(st) ==
    [st EXCEPT !.video_url = None, !.video_request_id = None,
               !.generating_video = FALSE, !.show_video_form = TRUE]

\* the answered branch of the view, up to and including the poll block
AnsweredTop(st, ev, cv, pv) ==
    IF ev = "gen_video" /\ ~st.generating_video /\ ~Truthy(st.video_url)
    THEN [st |-> [st EXCEPT !.show_video_form = TRUE], rerun |-> TRUE, error |-> "none"]
    ELSE LET f == VideoForm(st, ev, cv)
             p == VideoPoll(f.st, pv)
         IN IF f.rerun THEN f
            ELSE IF f.error # "none" THEN [p EXCEPT !.error = f.error]
            ELSE p

\* the part of the joined view below the Refresh block, for a widget event
\* whose handler makes no gateway call
Body(st, ev, cv, pv) ==
    LET a == IF Truthy(st.current_question) /\ st.answer_submitted
             THEN AnsweredTop(st, ev, cv, pv)
             ELSE [st |-> st, rerun |-> FALSE, error |-> "none"]
        b == IF ~a.rerun /\ Truthy(a.st.current_question) /\ a.st.answer_submitted
                /\ Truthy(a.st.video_url) /\ ev = "new_video"
             THEN [st |-> NewVideo(a.st), rerun |-> TRUE, error |-> "none"]
             ELSE a
    IN IF ~b.rerun /\ ev = "leave"
       THEN [st |-> LeaveClass(b.st), rerun |-> TRUE, error |-> "none"]
       ELSE b

\* the widget is on the page the session last rendered
Visible(st, ev) ==
    CASE ev \in {"none", "refresh", "leave"} -> TRUE
      [] ev = "gen_video" -> Truthy(st.current_question) /\ st.answer_submitted
                             /\ ~st.generating_video /\ ~Truthy(st.video_url)
      [] ev \in {"back", "form_submit", "form_cancel"} ->
             Truthy(st.current_question) /\ st.answer_submitted
             /\ st.show_video_form /\ ~Truthy(st.video_url)
      [] ev \in {"next", "new_video"} ->
             Truthy(st.current_question) /\ st.answer_submitted /\ Truthy(st.video_url)
      [] ev = "submit" -> Truthy(st.current_question) /\ ~st.answer_submitted

LocalEvents == {"none", "gen_video", "back", "form_submit", "form_cancel", "new_video", "leave"}

\* answers a student may type: empty, blank, and a text with a leading blank
AnswerInputs == {<<>>, <<" ">>, <<" ", "a">>}

\* (class_code, student_id) pairs a session may find in its URL
QueryParams == {<<None, None>>, <<"AB12", "S-0001">>}

\* the evaluation object Submit Answer stores with the answer (score 0.7,
\* kept in hundredths)
simple_eval(suggestions) ==
    [score |-> 70, feedback |-> "Thank you for your answer.", suggestions |-> suggestions]

\* what the last step called: a gateway call with its arguments and result,
\* or Submit Answer with the text, whether the AI service and save_answer
\* were called, and save_answer's result; for a call made while the storage
\* layer may fail: whether it failed (fault) and how the call ended (out:
\* "true", "false", "null", "empty", "value" or "raise")
\* for a handler of the question manager: the button (op), the index it
\* acted on (i) and whether it called update_classroom_question (ret)
NoCall == [op |-> "none", code |-> None, sid |-> None, tid |-> None, q |-> None,
           text |-> <<>>, ret |-> FALSE, ai |-> FALSE, save |-> FALSE,
           fault |-> FALSE, out |-> "none", i |-> -1]

\* the AIService function called on its own, outside the app: the provider's
\* response and the function's result
\* for a suggestion filter applied on its own: the function holding it
\* (site), the list it was given (lines) and the entries it kept (suggestions)
NoAICall == [op |-> "none", ok |-> TRUE, text |-> <<>>, lines |-> <<>>,
             score |-> 0, feedback |-> <<>>, suggestions |-> <<>>, site |-> "none"]

\* database connections two gateway calls running at the same time hold
Connections == {"c1", "c2"}

\* a gateway call in progress on its own sqlite3 connection: the function,
\* its arguments, the statement it executes next (next: "count", "status",
\* "insert", or "return" once it has returned), its result, whether it left
\* as an exception, and whether another connection ran a statement after
\* this call's first one and before its last one
NoStatement == [op |-> "none", code |-> None, sid |-> None, q |-> None,
                next |-> "return", ret |-> FALSE, raised |-> FALSE,
                overlapped |-> FALSE]

(* ------------------------------- Init ---------------------------------- *)

\* rows an education_tool.db file kept from an earlier run may hold: a
\* classroom that was closed
ClosedRow == [id |-> 1, class_code |-> "CD34", teacher_id |-> "teacher-1",
              question |-> "Why is X?", status |-> "closed"]

\* delete_confirm holds an index or None; None is kept as -1
InitTeacher == [questions |-> <<>>, current_question_index |-> -1,
                current_question |-> None, class_code |-> None,
                editing_question_index |-> -1, delete_confirm |-> -1]

Init ==
    /\ classrooms \in {{}, {ClosedRow}}
    /\ students = {}
    /\ answers = {}
    /\ sess \in [Sessions -> {InitSession(p[1], p[2]) : p \in QueryParams}]
    /\ teacher = InitTeacher
    /\ last = NoCall
    /\ aicall = NoAICall
    /\ conn = [k \in Connections |-> NoStatement]

(* --------------------------- student actions --------------------------- *)

Info(s, fault) == get_classroom_info(classrooms, sess[s].class_code, fault)

\* Join: the view's own COUNT(*) check, generate_student_id, add_student
StudentJoin(s, code, sid, fault) ==
    /\ ~Truthy(sess[s].class_code)
    /\ sess[s].pending = "idle"
    /\ LET r == IF CountClassrooms(classrooms, code) = 0
                THEN [ret |-> FALSE, students |-> students]
                ELSE add_student(classrooms, students, sid, code, fault)
       IN /\ students' = r.students
          /\ sess' = [sess EXCEPT ![s] = IF r.ret
                                         THEN [@ EXCEPT !.class_code = code, !.student_id = sid]
                                         ELSE @]
          /\ last' = NoCall
    /\ UNCHANGED <<conn, aicall, classrooms, answers, teacher>>

\* a script run of the joined view for a widget whose handler calls no gateway
StudentRun(s, ev, cv, pv, fault) ==
    /\ Truthy(sess[s].class_code)
    /\ sess[s].pending = "idle"
    /\ ev \in LocalEvents
    /\ Visible(sess[s], ev)
    /\ sess' = [sess EXCEPT ![s] = Body(AutoCheck(@, Info(s, fault)), ev, cv, pv).st]
    /\ last' = NoCall
    /\ UNCHANGED <<conn, aicall, classrooms, students, answers, teacher>>

\* Refresh Question clicked: the run reaches the button after the automatic check
StudentRefreshTop(s, fault) ==
    /\ Truthy(sess[s].class_code)
    /\ sess[s].pending = "idle"
    /\ sess' = [sess EXCEPT ![s] = [AutoCheck(@, Info(s, fault)) EXCEPT !.pending = "refresh"]]
    /\ last' = NoCall
    /\ UNCHANGED <<conn, aicall, classrooms, students, answers, teacher>>

\* the Refresh Question handler and, when it does not rerun, the rest of the view
StudentRefresh(s, pv, fault) ==
    /\ sess[s].pending = "refresh"
    /\ LET st0 == [sess[s] EXCEPT !.pending = "idle"]
           st1 == RefreshQuestion(st0, Info(s, fault))
       IN sess' = [sess EXCEPT ![s] = IF st1 # st0 THEN st1
                                      ELSE Body(st1, "none", "error", pv).st]
    /\ last' = NoCall
    /\ UNCHANGED <<conn, aicall, classrooms, students, answers, teacher>>

\* Next Question clicked: the run reaches the button below the video
StudentNextTop(s, pv, fault) ==
    /\ Truthy(sess[s].class_code)
    /\ sess[s].pending = "idle"
    /\ Visible(sess[s], "next")
    /\ LET b == Body(AutoCheck(sess[s], Info(s, fault)), "none", "error", pv)
           reached == /\ ~b.rerun
                      /\ Truthy(b.st.current_question) /\ b.st.answer_submitted
                      /\ Truthy(b.st.video_url)
       IN sess' = [sess EXCEPT ![s] = IF reached THEN [b.st EXCEPT !.pending = "next"]
                                      ELSE b.st]
    /\ last' = NoCall
    /\ UNCHANGED <<conn, aicall, classrooms, students, answers, teacher>>

\* the Next Question handler
StudentNext(s, fault) ==
    /\ sess[s].pending = "next"
    /\ sess' = [sess EXCEPT ![s] = NextQuestion([@ EXCEPT !.pending = "idle"], Info(s, fault))]
    /\ last' = NoCall
    /\ UNCHANGED <<conn, aicall, classrooms, students, answers, teacher>>

\* Submit Answer: the run (automatic check first) and the handler
StudentSubmit(s, text, resp, fault) ==
    /\ Truthy(sess[s].class_code)
    /\ sess[s].pending = "idle"
    /\ Visible(sess[s], "submit")
    /\ LET st1 == AutoCheck(sess[s], Info(s, fault))
           reached == Truthy(st1.current_question) /\ ~st1.answer_submitted
           blank == Strip(text) = <<>>
           suggestions == get_simple_suggestions(resp)
           r == save_answer(answers, st1.student_id, st1.class_code,
                            st1.current_question, text, simple_eval(suggestions), fault)
       IN IF reached /\ ~blank
          THEN /\ Cardinality(answers) < MaxAnswers
               /\ sess' = [sess EXCEPT ![s] = [st1 EXCEPT !.answer_suggestions = suggestions,
                                                          !.answer_submitted = TRUE,
                                                          !.answer_text = text]]
               /\ answers' = r.answers
               /\ last' = [NoCall EXCEPT !.op = "submit", !.text = text, !.ret = r.ret,
                                         !.ai = TRUE, !.save = TRUE]
          ELSE /\ sess' = [sess EXCEPT ![s] = st1]
               /\ answers' = answers
               /\ last' = IF reached THEN [NoCall EXCEPT !.op = "submit", !.text = text]
                          ELSE NoCall
    /\ UNCHANGED <<conn, aicall, classrooms, students, teacher>>

(* --------------------------- teacher actions --------------------------- *)

\* questions[i] of the Python list (0-based)
QuestionAt(t, i) == t.questions[i + 1]

\* validate_input(text) with the default min_length and max_length
validate_input(text) == text # None /\ text # ""

\* Add This Question that also pushes the added text to the classroom row
AddThisQuestionAndPush(text) ==
    /\ validate_input(text)
    /\ LET qs == Append(teacher.questions, text)
       IN teacher' = IF Len(qs) = 1 \/ teacher.current_question = None
                     THEN [teacher EXCEPT !.questions = qs,
                                          !.current_question = text,
                                          !.current_question_index = 0]
                     ELSE [teacher EXCEPT !.questions = qs]
    /\ classrooms' = IF Truthy(teacher.class_code)
                     THEN update_classroom_question(classrooms, teacher.class_code,
                                                    text, FALSE).classrooms
                     ELSE classrooms
    /\ last' = NoCall
    /\ UNCHANGED <<conn, aicall, students, answers, sess>>

\* Add This Question; Add to Question List does the same with the generated
\* text
AddThisQuestion(text) ==
    /\ validate_input(text)
    /\ LET qs == Append(teacher.questions, text)
       IN teacher' = IF Len(qs) = 1 \/ teacher.current_question = None
                     THEN [teacher EXCEPT !.questions = qs,
                                          !.current_question = text,
                                          !.current_question_index = 0]
                     ELSE [teacher EXCEPT !.questions = qs]
    /\ last' = NoCall
    /\ UNCHANGED <<conn, aicall, classrooms, students, answers, sess>>

\* Add This Question while the list is shorter than MaxQuestions
TeacherAddQuestion(text) ==
    /\ Len(teacher.questions) < MaxQuestions
    /\ AddThisQuestion(text)

\* the three navigation handlers end the same way: move the pointer, cache
\* the pointed-to text, push it to the store
NavigateTo(i, fault) ==
    /\ teacher' = [teacher EXCEPT !.current_question_index = i,
                                  !.current_question = QuestionAt(teacher, i)]
    /\ classrooms' = update_classroom_question(classrooms, teacher.class_code,
                                               QuestionAt(teacher, i), fault).classrooms
    /\ last' = NoCall
    /\ UNCHANGED <<conn, aicall, students, answers, sess>>

\* Select Question (selectbox)
TeacherSelect(i, fault) ==
    /\ Truthy(teacher.class_code)
    /\ teacher.questions # <<>>
    /\ i \in 0..(Len(teacher.questions) - 1)
    /\ i # teacher.current_question_index
    /\ NavigateTo(i, fault)

\* Previous Question
TeacherPrevious(fault) ==
    /\ Truthy(teacher.class_code)
    /\ teacher.questions # <<>>
    /\ teacher.current_question_index > 0
    /\ NavigateTo(teacher.current_question_index - 1, fault)

\* Next Question
TeacherNext(fault) ==
    /\ Truthy(teacher.class_code)
    /\ teacher.questions # <<>>
    /\ teacher.current_question_index < Len(teacher.questions) - 1
    /\ NavigateTo(teacher.current_question_index + 1, fault)

\* End Class
TeacherEndClass ==
    /\ Truthy(teacher.class_code)
    /\ teacher' = [teacher EXCEPT !.class_code = None, !.current_question = None]
    /\ last' = NoCall
    /\ UNCHANGED <<conn, aicall, classrooms, students, answers, sess>>

\* Generate Class Code: generate_class_code, then create_classroom
TeacherGenerateClassCode(new_code, fault) ==
    /\ ~Truthy(teacher.class_code)
    /\ teacher.questions # <<>>
    /\ LET r == create_classroom(classrooms, new_code, "teacher-1",
                                 teacher.current_question, fault)
       IN /\ classrooms' = r.classrooms
          /\ teacher' = IF r.ret THEN [teacher EXCEPT !.class_code = new_code] ELSE teacher
          /\ last' = NoCall
    /\ UNCHANGED <<conn, aicall, students, answers, sess>>

\* most questions the teacher of the question manager drafts
MaxDrafts == 3

\* questions[i], questions[j] = questions[j], questions[i] (0-based)
SwapAt(qs, i, j) ==
    [k \in 1..Len(qs) |-> IF k = i + 1 THEN qs[j + 1]
                          ELSE IF k = j + 1 THEN qs[i + 1] ELSE qs[k]]

\* the list after questions.pop(i)
Pop(qs, i) == SubSeq(qs, 1, i) \o SubSeq(qs, i + 2, Len(qs))

\* Edit on Question i+1: shown for a question that is not being edited
TeacherEdit(i) ==
    /\ i \in 0..(Len(teacher.questions) - 1)
    /\ i # teacher.editing_question_index
    /\ teacher' = [teacher EXCEPT !.editing_question_index = i]
    /\ last' = NoCall
    /\ UNCHANGED <<conn, aicall, classrooms, students, answers, sess>>

\* Save Changes on the question being edited; edited is the text area value
TeacherSaveChanges(edited, fault) ==
    LET i == teacher.editing_question_index
    IN /\ i \in 0..(Len(teacher.questions) - 1)
       /\ IF validate_input(edited)
          THEN LET qs == [teacher.questions EXCEPT ![i + 1] = edited]
                   pointed == i = teacher.current_question_index
               IN /\ teacher' = [teacher EXCEPT
                                    !.questions = qs,
                                    !.current_question = IF pointed THEN edited ELSE @,
                                    !.editing_question_index = -1]
                  /\ classrooms' = IF pointed /\ Truthy(teacher.class_code)
                                   THEN update_classroom_question(
                                            classrooms, teacher.class_code, edited,
                                            fault).classrooms
                                   ELSE classrooms
                  /\ last' = [NoCall EXCEPT !.op = "save_changes", !.i = i,
                                            !.ret = pointed /\ Truthy(teacher.class_code)]
          ELSE /\ UNCHANGED <<teacher, classrooms>>
               /\ last' = NoCall
       /\ UNCHANGED <<conn, aicall, students, answers, sess>>

\* Cancel Editing
TeacherCancelEditing ==
    /\ teacher.editing_question_index \in 0..(Len(teacher.questions) - 1)
    /\ teacher' = [teacher EXCEPT !.editing_question_index = -1]
    /\ last' = NoCall
    /\ UNCHANGED <<conn, aicall, classrooms, students, answers, sess>>

\* Delete on Question i+1: asks for confirmation
TeacherDelete(i) ==
    /\ i \in 0..(Len(teacher.questions) - 1)
    /\ i # teacher.editing_question_index
    /\ teacher' = [teacher EXCEPT !.delete_confirm = i]
    /\ last' = NoCall
    /\ UNCHANGED <<conn, aicall, classrooms, students, answers, sess>>

\* Move Up that swaps the entries and leaves the pointer where it is
MoveUpKeepsIndex(t, i) == [t EXCEPT !.questions = SwapAt(t.questions, i, i - 1)]

\* the session after Move Up on Question i+1
MoveUp(t, i) ==
    [t EXCEPT !.questions = SwapAt(t.questions, i, i - 1),
              !.current_question_index =
                  IF i = t.current_question_index THEN i - 1
                  ELSE IF i - 1 = t.current_question_index THEN i ELSE @]

\* the session after Move Down on Question i+1
MoveDown(t, i) ==
    [t EXCEPT !.questions = SwapAt(t.questions, i, i + 1),
              !.current_question_index =
                  IF i = t.current_question_index THEN i + 1
                  ELSE IF i + 1 = t.current_question_index THEN i ELSE @]

\* Move Up: shown for every question but the first that is not being edited
TeacherMoveUp(i) ==
    /\ i \in 1..(Len(teacher.questions) - 1)
    /\ i # teacher.editing_question_index
    /\ teacher' = MoveUp(teacher, i)
    /\ last' = [NoCall EXCEPT !.op = "move_up", !.i = i]
    /\ UNCHANGED <<conn, aicall, classrooms, students, answers, sess>>

\* Move Down: shown for every question but the last that is not being edited
TeacherMoveDown(i) ==
    /\ i \in 0..(Len(teacher.questions) - 2)
    /\ i # teacher.editing_question_index
    /\ teacher' = MoveDown(teacher, i)
    /\ last' = [NoCall EXCEPT !.op = "move_down", !.i = i]
    /\ UNCHANGED <<conn, aicall, classrooms, students, answers, sess>>

\* Confirm Delete that never moves the pointer down
ConfirmDeleteNoDecrement(t) ==
    LET i == t.delete_confirm
        qs == Pop(t.questions, i)
    IN IF i = t.current_question_index
       THEN IF qs # <<>>
            THEN LET new_index == IF i < Len(qs) - 1 THEN i ELSE Len(qs) - 1
                 IN [t EXCEPT !.questions = qs, !.current_question_index = new_index,
                              !.current_question = qs[new_index + 1],
                              !.delete_confirm = -1]
            ELSE [t EXCEPT !.questions = qs, !.current_question_index = -1,
                           !.current_question = None, !.delete_confirm = -1]
       ELSE [t EXCEPT !.questions = qs, !.delete_confirm = -1]

\* Confirm Delete that leaves the pointer where it was when the pointed-to
\* question is removed
ConfirmDeleteKeepsPointer(t) ==
    LET i == t.delete_confirm
        qs == Pop(t.questions, i)
    IN IF i = t.current_question_index
       THEN [t EXCEPT !.questions = qs,
                      !.current_question = IF i < Len(qs) THEN qs[i + 1] ELSE None,
                      !.delete_confirm = -1]
       ELSE IF i < t.current_question_index
       THEN [t EXCEPT !.questions = qs, !.current_question_index = @ - 1,
                      !.delete_confirm = -1]
       ELSE [t EXCEPT !.questions = qs, !.delete_confirm = -1]

\* the session after Confirm Delete
ConfirmDelete(t) ==
    LET i == t.delete_confirm
        qs == Pop(t.questions, i)
    IN IF i = t.current_question_index
       THEN IF qs # <<>>
            THEN LET new_index == IF i < Len(qs) - 1 THEN i ELSE Len(qs) - 1
                 IN [t EXCEPT !.questions = qs, !.current_question_index = new_index,
                              !.current_question = qs[new_index + 1],
                              !.delete_confirm = -1]
            ELSE [t EXCEPT !.questions = qs, !.current_question_index = -1,
                           !.current_question = None, !.delete_confirm = -1]
       ELSE IF i < t.current_question_index
       THEN [t EXCEPT !.questions = qs, !.current_question_index = @ - 1,
                      !.delete_confirm = -1]
       ELSE [t EXCEPT !.questions = qs, !.delete_confirm = -1]

\* Confirm Delete: pop, move the pointer, push the pointed-to text when the
\* pointed-to question was deleted, the list is not empty and a class is open
TeacherConfirmDelete(fault) ==
    /\ teacher.delete_confirm \in 0..(Len(teacher.questions) - 1)
    /\ teacher' = ConfirmDelete(teacher)
    /\ classrooms' = IF /\ teacher.delete_confirm = teacher.current_question_index
                        /\ Len(teacher.questions) > 1
                        /\ Truthy(teacher.class_code)
                     THEN update_classroom_question(classrooms, teacher.class_code,
                                                    teacher'.current_question,
                                                    fault).classrooms
                     ELSE classrooms
    /\ last' = [NoCall EXCEPT !.op = "confirm_delete", !.i = teacher.delete_confirm,
                              !.ret = /\ teacher.delete_confirm = teacher.current_question_index
                                      /\ Len(teacher.questions) > 1
                                      /\ Truthy(teacher.class_code)]
    /\ UNCHANGED <<conn, aicall, students, answers, sess>>

\* Cancel Delete
TeacherCancelDelete ==
    /\ teacher.questions # <<>>
    /\ teacher.delete_confirm # -1
    /\ teacher' = [teacher EXCEPT !.delete_confirm = -1]
    /\ last' = NoCall
    /\ UNCHANGED <<conn, aicall, classrooms, students, answers, sess>>

(* ----------------------- the app's specification ----------------------- *)

\* every step of the app, the storage layer failing only for faults in F
\* create_video is called by the form's submit button only
CreateOutcomesFor(ev) == IF ev = "form_submit" THEN CreateOutcomes ELSE {"error"}

\* get_video_status is called only while a video is being generated
PollOutcomesFor(st) ==
    IF st.generating_video /\ Truthy(st.video_request_id) THEN PollOutcomes ELSE {"other"}

AppNext(F) ==
    \/ \E s \in Sessions, code \in Codes, sid \in StudentIds, f \in F :
          StudentJoin(s, code, sid, f)
    \/ \E s \in Sessions, ev \in LocalEvents, f \in F :
          \E cv \in CreateOutcomesFor(ev), pv \in PollOutcomesFor(sess[s]) :
              StudentRun(s, ev, cv, pv, f)
    \/ \E s \in Sessions, f \in F : StudentRefreshTop(s, f)
    \/ \E s \in Sessions, f \in F :
          \E pv \in PollOutcomesFor(sess[s]) : StudentRefresh(s, pv, f)
    \/ \E s \in Sessions, f \in F :
          \E pv \in PollOutcomesFor(sess[s]) : StudentNextTop(s, pv, f)
    \/ \E s \in Sessions, f \in F : StudentNext(s, f)
    \/ \E s \in Sessions, text \in AnswerInputs, resp \in AIResponses, f \in F :
          StudentSubmit(s, text, resp, f)
    \/ \E text \in Questions : TeacherAddQuestion(text)
    \/ \E i \in 0..(MaxQuestions - 1), f \in F : TeacherSelect(i, f)
    \/ \E f \in F : TeacherPrevious(f)
    \/ \E f \in F : TeacherNext(f)
    \/ TeacherEndClass
    \/ \E new_code \in Codes, f \in F : TeacherGenerateClassCode(new_code, f)

Next == AppNext({FALSE})

Spec == Init /\ [][Next]_vars

\* every step of the app when any gateway call may hit a storage error
NextFault == AppNext(BOOLEAN)

\* a fresh database file and sessions opened without query parameters
InitFault ==
    /\ Init
    /\ classrooms = {}
    /\ \A s \in Sessions : sess[s] = InitSession(None, None)

SpecFault == InitFault /\ [][NextFault]_vars

\* a script run of a joined session triggered by no button of the view
StudentCheck(s) ==
    \E pv \in PollOutcomesFor(sess[s]) : StudentRun(s, "none", "error", pv, FALSE)

\* the polling protocol alone: the teacher authors, opens, navigates and
\* ends classes; students join, re-run the view, refresh and leave; no
\* answer is submitted and no video is requested
PollNext ==
    \/ \E s \in Sessions, code \in Codes, sid \in StudentIds : StudentJoin(s, code, sid, FALSE)
    \/ \E s \in Sessions, ev \in {"none", "leave"} : StudentRun(s, ev, "error", "other", FALSE)
    \/ \E s \in Sessions : StudentRefreshTop(s, FALSE)
    \/ \E s \in Sessions : StudentRefresh(s, "other", FALSE)
    \/ \E text \in Questions : TeacherAddQuestion(text)
    \/ \E i \in 0..(MaxQuestions - 1) : TeacherSelect(i, FALSE)
    \/ TeacherPrevious(FALSE)
    \/ TeacherNext(FALSE)
    \/ TeacherEndClass
    \/ \E new_code \in Codes : TeacherGenerateClassCode(new_code, FALSE)

\* ... when every joined student keeps re-running the view (each run
\* performs the automatic check) and every started run reaches its handler
SpecLive ==
    /\ Init /\ [][PollNext]_vars
    /\ \A s \in Sessions :
          /\ WF_vars(StudentCheck(s))
          /\ WF_vars(StudentRefresh(s, "other", FALSE))

(* -------------------- the gateway called directly ---------------------- *)

\* most answer rows gateway callers store
MaxStoredAnswers == 2

\* the suggestions a gateway caller passes in its evaluation
CallerSuggestions == default_suggestions

DbCreateClassroom(class_code, teacher_id, question) ==
    /\ LET r == create_classroom(classrooms, class_code, teacher_id, question, FALSE)
       IN /\ classrooms' = r.classrooms
          /\ last' = [NoCall EXCEPT !.op = "create_classroom", !.code = class_code,
                                    !.tid = teacher_id, !.q = question, !.ret = r.ret]
    /\ UNCHANGED <<conn, aicall, students, answers, sess, teacher>>

DbAddStudent(student_id, class_code) ==
    /\ LET r == add_student(classrooms, students, student_id, class_code, FALSE)
       IN /\ students' = r.students
          /\ last' = [NoCall EXCEPT !.op = "add_student", !.code = class_code,
                                    !.sid = student_id, !.ret = r.ret]
    /\ UNCHANGED <<conn, aicall, classrooms, answers, sess, teacher>>

DbSaveAnswer(student_id, class_code, question, answer) ==
    /\ Cardinality(answers) < MaxStoredAnswers
    /\ LET r == save_answer(answers, student_id, class_code, question, answer,
                            simple_eval(CallerSuggestions), FALSE)
       IN /\ answers' = r.answers
          /\ last' = [NoCall EXCEPT !.op = "save_answer", !.code = class_code,
                                    !.sid = student_id, !.q = question, !.text = answer,
                                    !.ret = r.ret, !.save = TRUE]
    /\ UNCHANGED <<conn, aicall, classrooms, students, sess, teacher>>

DbUpdateClassroomQuestion(class_code, question) ==
    /\ LET r == update_classroom_question(classrooms, class_code, question, FALSE)
       IN /\ classrooms' = r.classrooms
          /\ last' = [NoCall EXCEPT !.op = "update_classroom_question", !.code = class_code,
                                    !.q = question, !.ret = r.ret]
    /\ UNCHANGED <<conn, aicall, students, answers, sess, teacher>>

GatewayNext ==
    \/ \E c \in Codes, t \in TeacherIds, q \in Questions : DbCreateClassroom(c, t, q)
    \/ \E i \in StudentIds, c \in Codes : DbAddStudent(i, c)
    \/ \E i \in StudentIds, c \in Codes : DbSaveAnswer(i, c, "Why is X?", <<"a">>)
    \/ \E c \in Codes, q \in Questions : DbUpdateClassroomQuestion(c, q)

\* the store under any sequence of gateway calls; no app session runs
InitGateway ==
    /\ Init
    /\ \A s \in Sessions : sess[s] = InitSession(None, None)

SpecGateway == InitGateway /\ [][GatewayNext]_vars

(* ----------------- the gateway over a failing storage ------------------ *)

\* how a call that returns a bool ended
BoolOut(ret) == IF ret THEN "true" ELSE "false"

\* how a call that returns a collection ended
ListOut(list) == IF list = <<>> THEN "empty" ELSE "value"

\* the eight gateway operations, called for one classroom and one student
\* while any call may hit sqlite3.Error
StorageCreateClassroom(question, fault) ==
    /\ LET r == create_classroom(classrooms, "AB12", "teacher-1", question, fault)
       IN /\ classrooms' = r.classrooms
          /\ last' = [NoCall EXCEPT !.op = "create_classroom", !.code = "AB12",
                                    !.fault = fault, !.out = BoolOut(r.ret)]
    /\ UNCHANGED <<conn, aicall, students, answers, sess, teacher>>

StorageAddStudent(fault) ==
    /\ LET r == add_student(classrooms, students, "S-0001", "AB12", fault)
       IN /\ students' = r.students
          /\ last' = [NoCall EXCEPT !.op = "add_student", !.code = "AB12",
                                    !.fault = fault, !.out = BoolOut(r.ret)]
    /\ UNCHANGED <<conn, aicall, classrooms, answers, sess, teacher>>

StorageSaveAnswer(fault) ==
    /\ Cardinality(answers) < MaxStoredAnswers
    /\ LET r == save_answer(answers, "S-0001", "AB12", "Why is X?", <<"a">>,
                            simple_eval(CallerSuggestions), fault)
       IN /\ answers' = r.answers
          /\ last' = [NoCall EXCEPT !.op = "save_answer", !.code = "AB12",
                                    !.fault = fault, !.out = BoolOut(r.ret)]
    /\ UNCHANGED <<conn, aicall, classrooms, students, sess, teacher>>

StorageUpdateClassroomQuestion(question, fault) ==
    /\ LET r == update_classroom_question(classrooms, "AB12", question, fault)
       IN /\ classrooms' = r.classrooms
          /\ last' = [NoCall EXCEPT !.op = "update_classroom_question", !.code = "AB12",
                                    !.fault = fault, !.out = BoolOut(r.ret)]
    /\ UNCHANGED <<conn, aicall, students, answers, sess, teacher>>

StorageGetClassroomInfo(fault) ==
    /\ last' = [NoCall EXCEPT !.op = "get_classroom_info", !.code = "AB12", !.fault = fault,
                              !.out = IF get_classroom_info(classrooms, "AB12", fault).found
                                      THEN "value" ELSE "null"]
    /\ UNCHANGED <<conn, aicall, classrooms, students, answers, sess, teacher>>

StorageGetAnswersForQuestion(fault) ==
    /\ last' = [NoCall EXCEPT !.op = "get_answers_for_question", !.code = "AB12",
                              !.fault = fault,
                              !.out = ListOut(get_answers_for_question(answers, students, "AB12",
                                                                       "Why is X?", fault))]
    /\ UNCHANGED <<conn, aicall, classrooms, students, answers, sess, teacher>>

StorageGetClassroomStudents(fault) ==
    /\ LET r == get_classroom_students(students, "AB12", fault)
       IN last' = [NoCall EXCEPT !.op = "get_classroom_students", !.code = "AB12",
                                 !.fault = fault,
                                 !.out = IF r.raised THEN "raise" ELSE ListOut(r.list)]
    /\ UNCHANGED <<conn, aicall, classrooms, students, answers, sess, teacher>>

StorageGetClassroomData(fault) ==
    /\ last' = [NoCall EXCEPT !.op = "get_classroom_data", !.code = "AB12", !.fault = fault,
                              !.out = ListOut(get_classroom_data(answers, students, "AB12",
                                                                 fault))]
    /\ UNCHANGED <<conn, aicall, classrooms, students, answers, sess, teacher>>

StorageNext ==
    \/ \E q \in Questions, f \in BOOLEAN : StorageCreateClassroom(q, f)
    \/ \E f \in BOOLEAN : StorageAddStudent(f)
    \/ \E f \in BOOLEAN : StorageSaveAnswer(f)
    \/ \E q \in Questions, f \in BOOLEAN : StorageUpdateClassroomQuestion(q, f)
    \/ \E f \in BOOLEAN : StorageGetClassroomInfo(f)
    \/ \E f \in BOOLEAN : StorageGetAnswersForQuestion(f)
    \/ \E f \in BOOLEAN : StorageGetClassroomStudents(f)
    \/ \E f \in BOOLEAN : StorageGetClassroomData(f)

SpecStorage == InitGateway /\ [][StorageNext]_vars

(* -------------------- the AI service called directly ------------------- *)

ClickRefresh == <<"C", "l", "i", "c", "k", " ", "r", "e", "f", "r", "e", "s", "h">>

TheStudent == <<"t", "h", "e", " ", "S", "t", "u", "d", "e", "n", "t">>

\* values the provider may put under "score", "feedback" and "suggestions"
ScoreValues == {Missing, JNum(-50), JNum(80), JNum(150), JBool(TRUE), JNaN,
                JStr(<<"high">>)}

FeedbackValues == {Missing, JStr(<<>>), JStr(<<"Good start">>), JNum(100)}

SuggestionValues ==
    { Missing, JStr(<<"none">>), JList(<<>>),
      JList(<<JStr(<<"Add an example">>), JStr(<<"Explain why">>), JStr(<<"Use data">>)>>),
      JList(<<JStr(ClickRefresh), JNum(100), JStr(<<" ">>), JStr(<<" ", "Use data", " ">>)>>),
      JList(<<JStr(<<"Add", "U+FF0C">>), JStr(TheStudent)>>),
      JList(<<JStr(<<"Add an example">>), JStr(<<"Explain why">>), JStr(<<"Use data">>),
              JStr(<<"Cite a source">>)>>),
      JList(<<JStr(<<"Use ", "<", "b", ">">>),
              JStr(<<"Add more specific details and examples">>)>>) }

JsonValues ==
    {JObject(a, b, c) : a \in ScoreValues, b \in FeedbackValues, c \in SuggestionValues}
    \cup {NonObject(t) : t \in {"list", "string", "number", "null"}}

\* response texts: bare JSON, JSON inside prose, fenced JSON (closed or not),
\* two JSON values, prose only, the empty text
ResponseTexts ==
    UNION { { <<Json(v)>>, <<Prose, Json(v), Prose>>, <<FenceJson, Json(v), Fence>>,
              <<Fence, Json(v), Fence>>, <<FenceJson, Json(v)>>,
              <<Json(v), Prose, Json(v)>> } : v \in JsonValues }
    \cup { <<>>, <<Prose>> }

EvaluationResponses ==
    {[ok |-> FALSE, text |-> <<>>]} \cup {[ok |-> TRUE, text |-> t] : t \in ResponseTexts}

\* responses to the three-line suggestion prompt
SimpleResponses ==
    AIResponses \cup
    { [ok |-> TRUE, lines |-> << <<"1", ".", " ">> \o ClickRefresh, <<"2", ")", " ", "Explain why">>,
                                 <<"3", " ", "Use data">>, <<"4", ".", " ", "Cite a source">> >>],
      [ok |-> TRUE, lines |-> << TheStudent >>],
      [ok |-> TRUE, lines |-> << <<"Include specific examples to support your key points.">> >>],
      [ok |-> TRUE, lines |-> <<>>] }

\* a call runs to its return before the next one starts
AiEvaluateAnswer(resp) ==
    /\ aicall.op = "none"
    /\ LET evaluation == evaluate_answer(resp)
       IN aicall' = [NoAICall EXCEPT !.op = "evaluate_answer", !.ok = resp.ok,
                                     !.text = resp.text, !.score = evaluation.score,
                                     !.feedback = evaluation.feedback,
                                     !.suggestions = evaluation.suggestions]
    /\ UNCHANGED <<conn, classrooms, students, answers, sess, teacher, last>>

AiGetSimpleSuggestions(resp) ==
    /\ aicall.op = "none"
    /\ aicall' = [NoAICall EXCEPT !.op = "get_simple_suggestions", !.ok = resp.ok,
                                  !.lines = resp.lines,
                                  !.suggestions = get_simple_suggestions(resp)]
    /\ UNCHANGED <<conn, classrooms, students, answers, sess, teacher, last>>

\* the caller has taken the result
AiReturn ==
    /\ aicall.op # "none"
    /\ aicall' = NoAICall
    /\ UNCHANGED <<conn, classrooms, students, answers, sess, teacher, last>>

AINext ==
    \/ \E resp \in EvaluationResponses : AiEvaluateAnswer(resp)
    \/ \E resp \in SimpleResponses : AiGetSimpleSuggestions(resp)
    \/ AiReturn

SpecAI == InitGateway /\ [][AINext]_vars

(* ------------------------------- claims -------------------------------- *)

\* the persisted question of the classroom with this code
PersistedQuestion(class_code) == get_classroom_info(classrooms, class_code, FALSE).question

RowsOf(class_code) == {r \in classrooms : r.class_code = class_code}

\* C1: a create_classroom call returns true exactly when no row with its
\* code existed; then it adds one row with that code, the caller's teacher
\* and question and status 'active'; a call for an existing code returns
\* false and leaves the classrooms table as it was; no code ever has two rows.
C1_CreateStep ==
    last'.op = "create_classroom" =>
        LET existed == RowsOf(last'.code) # {}
        IN /\ last'.ret = ~existed
           /\ existed => classrooms' = classrooms
           /\ ~existed => \E r \in classrooms' :
                              /\ r \notin classrooms
                              /\ classrooms' = classrooms \cup {r}
                              /\ r.class_code = last'.code /\ r.teacher_id = last'.tid
                              /\ r.question = last'.q /\ r.status = "active"

C1_CreateClassroomOnce ==
    /\ [](\A c \in Codes : Cardinality(RowsOf(c)) <= 1)
    /\ [][C1_CreateStep]_vars

\* a second create_classroom for an existing code, with another teacher and
\* question, was rejected and the row kept its teacher and question
C1_Witness ==
    /\ last.op = "create_classroom" /\ ~last.ret
    /\ \E r \in RowsOf(last.code) : r.teacher_id # last.tid /\ r.question # last.q

\* C2: an add_student call for a code with no classroom row, or whose
\* classroom is not 'active', returns false and adds no student row; a call
\* that returns true found an active classroom and added exactly one row
\* (student_id, class_code).
C2_AddStudentStep ==
    last'.op = "add_student" =>
        LET active == \E r \in RowsOf(last'.code) : r.status = "active"
            closed == \E r \in RowsOf(last'.code) : r.status # "active"
        IN /\ (~active \/ closed) => ~last'.ret /\ students' = students
           /\ last'.ret => /\ active /\ ~closed
                           /\ \E r \in students' :
                                 /\ r \notin students
                                 /\ students' = students \cup {r}
                                 /\ r.student_id = last'.sid /\ r.class_code = last'.code

C2_AddStudentNeedsActiveClassroom == [][C2_AddStudentStep]_vars

\* a join to a closed classroom was rejected
C2_Witness ==
    /\ last.op = "add_student" /\ ~last.ret
    /\ \E r \in RowsOf(last.code) : r.status = "closed"

\* C3: every answer row references an existing student row and an existing
\* classroom row (save_answer refuses any other row).
C3_AnswersReferenceRows ==
    \A a \in answers :
        /\ \E r \in students : r.student_id = a.student_id
        /\ \E r \in classrooms : r.class_code = a.class_code

\* C4: every student row's class_code is the code of a classroom row, and no
\* two student rows have the same student_id.
C4_StudentRowsValid ==
    /\ \A r \in students : RowsOf(r.class_code) # {}
    /\ \A r1, r2 \in students : r1.student_id = r2.student_id => r1 = r2

\* two students have joined, and a join with a code that has no classroom
\* row was rejected
C4_Witness ==
    /\ Cardinality(students) = 2
    /\ last.op = "add_student" /\ ~last.ret /\ RowsOf(last.code) = {}

\* C5: a save_answer call that returns true adds exactly one answer row and
\* every row stored before is still there, unchanged.
C5_SaveStep ==
    (last'.op = "save_answer" /\ last'.ret) =>
        /\ answers \subseteq answers'
        /\ Cardinality(answers') = Cardinality(answers) + 1

C5_SaveAnswerAppends == [][C5_SaveStep]_vars

\* the same student has two answer rows for the same question
C5_Witness ==
    /\ last.op = "save_answer" /\ last.ret
    /\ \E a1, a2 \in answers :
          /\ a1.id # a2.id /\ a1.student_id = a2.student_id
          /\ a1.class_code = a2.class_code /\ a1.question = a2.question

\* C6: whenever a student session has answer_submitted set for its cached
\* question, the store holds an answer row with the session's student_id,
\* class_code, that question and the submitted text.
C6_SubmittedIsStored ==
    \A s \in Sessions :
        sess[s].answer_submitted =>
            \E a \in answers :
                /\ a.student_id = sess[s].student_id
                /\ a.class_code = sess[s].class_code
                /\ a.question = sess[s].current_question
                /\ a.answer = sess[s].answer_text

\* C7: for a joined session whose classroom's persisted question differs from
\* the cached one, each of the three checks (automatic, Refresh Question,
\* Next Question) yields a session that caches the persisted question, has
\* answer_submitted false and holds no answer text, suggestions, evaluation
\* or video state.
Cleared(st) ==
    /\ ~st.answer_submitted
    /\ st.answer_text = Absent
    /\ st.answer_suggestions = Absent
    /\ st.evaluation_result = None
    /\ st.video_request_id = None
    /\ st.video_url = None
    /\ ~st.generating_video
    /\ ~st.show_video_form

C7_NewQuestionClearsAll ==
    \A s \in Sessions :
        LET st == sess[s]
            db_info == Info(s, FALSE)
        IN (Truthy(st.class_code) /\ db_info.found /\ db_info.question # st.current_question)
           => \A after \in {AutoCheck(st, db_info), RefreshQuestion(st, db_info),
                            NextQuestion(st, db_info)} :
                  /\ after.current_question = db_info.question
                  /\ Cleared(after)

IsBlank(t) == \A i \in 1..Len(t) : t[i] = " "

\* C9: a Submit Answer run with an empty or blank text calls neither the AI
\* service nor save_answer, adds no answer row, leaves answer_submitted
\* false and the session's answer text and suggestions as they were, and
\* leaves the whole session unchanged unless the teacher has changed the
\* persisted question since the session's last check (then the automatic
\* check at the top of the run loads it).
C9_BlankSubmitStep ==
    (last'.op = "submit" /\ IsBlank(last'.text)) =>
        /\ ~last'.ai /\ ~last'.save
        /\ answers' = answers
        /\ \A s \in Sessions :
              /\ sess'[s] # sess[s] => ~sess'[s].answer_submitted
              /\ sess'[s].answer_text = sess[s].answer_text
              /\ sess'[s].answer_suggestions = sess[s].answer_suggestions
              /\ PersistedQuestion(sess[s].class_code) = sess[s].current_question
                    => sess'[s] = sess[s]

C9_BlankAnswerRejected == [][C9_BlankSubmitStep]_vars

\* a blank (not empty) answer was submitted and nothing was stored
C9_Witness ==
    /\ last.op = "submit" /\ last.text = <<" ">>
    /\ answers = {}
    /\ \E s \in Sessions : Truthy(sess[s].current_question) /\ ~sess[s].answer_submitted

\* the cached question of a joined session is the persisted one
Synced(s) ==
    Truthy(sess[s].class_code) => sess[s].current_question = PersistedQuestion(sess[s].class_code)

\* a step that changes a classroom row, or the classroom a session is in
StoreOrMembershipChanges ==
    \/ classrooms' # classrooms
    \/ \E s \in Sessions : sess'[s].class_code # sess[s].class_code

\* C10: unless classroom rows keep changing or sessions keep joining and
\* leaving forever, from some point on every joined session's cached
\* question is the persisted question of its classroom.
C10_EventuallyLatest ==
    \/ []<><<StoreOrMembershipChanges>>_vars
    \/ <>[](\A s \in Sessions : Synced(s))

\* the teacher of the session's classroom has navigated to the second
\* question and the session's check has loaded it
C10_Witness ==
    \E s \in Sessions :
        /\ teacher.questions = <<"Why is X?", "Why is Y?">>
        /\ teacher.current_question_index = 1
        /\ Truthy(teacher.class_code) /\ sess[s].class_code = teacher.class_code
        /\ PersistedQuestion(teacher.class_code) = "Why is Y?"
        /\ sess[s].current_question = "Why is Y?"

\* the text holds one of the words evaluate_answer rejects (any case)
HasSuspiciousWord(text) == \E word \in SuspiciousWords : Contains(word, Lower(text))

\* C11: every evaluate_answer result has a score between 0 and 1, a
\* non-empty feedback text and exactly three non-empty suggestions.
C11_EvaluationWellFormed ==
    aicall.op = "evaluate_answer" =>
        /\ aicall.score \in 0..100
        /\ aicall.feedback # <<>>
        /\ Len(aicall.suggestions) = 3
        /\ \A i \in 1..Len(aicall.suggestions) : aicall.suggestions[i] # <<>>

\* C12: no suggestion returned by evaluate_answer or by
\* get_simple_suggestions holds a denylisted word (script, refresh, student,
\* click; any case).
C12_NoDenylistedSuggestion ==
    aicall.op \in {"evaluate_answer", "get_simple_suggestions"} =>
        \A i \in 1..Len(aicall.suggestions) : ~HasSuspiciousWord(aicall.suggestions[i])

\* evaluate_answer alone: the score and the suggestions are always well formed
EvaluateAnswerScoreAndSuggestions ==
    aicall.op = "evaluate_answer" =>
        /\ aicall.score \in 0..100
        /\ Len(aicall.suggestions) = 3
        /\ \A i \in 1..Len(aicall.suggestions) : aicall.suggestions[i] # <<>>

\* evaluate_answer alone: no returned suggestion holds a rejected word
EvaluateAnswerFilters ==
    aicall.op = "evaluate_answer" =>
        \A i \in 1..Len(aicall.suggestions) : ~HasSuspiciousWord(aicall.suggestions[i])

\* C13: an update_classroom_question call that returns true leaves the
\* student and answer rows alone and keeps every classroom row as it was,
\* except that the row with the call's code (if there is one) has the
\* call's question; get_classroom_info for that code then reports the
\* question; and applying the update a second time changes nothing more.
C13_UpdateStep ==
    (last'.op = "update_classroom_question" /\ last'.ret) =>
        /\ students' = students /\ answers' = answers
        /\ Cardinality(classrooms') = Cardinality(classrooms)
        /\ \A r \in classrooms :
              IF r.class_code = last'.code
              THEN [r EXCEPT !.question = last'.q] \in classrooms'
              ELSE r \in classrooms'
        /\ RowsOf(last'.code) # {}
              => get_classroom_info(classrooms', last'.code, FALSE).question = last'.q

C13_UpdateOverwritesQuestionOnly ==
    /\ [](\A c \in Codes, q \in Questions :
            LET once == update_classroom_question(classrooms, c, q, FALSE).classrooms
            IN update_classroom_question(once, c, q, FALSE).classrooms = once)
    /\ [][C13_UpdateStep]_vars

\* an update changed the question of one of two classroom rows while
\* student and answer rows were stored
C13_Witness ==
    /\ last.op = "update_classroom_question" /\ last.ret
    /\ \E r1, r2 \in classrooms :
          /\ r1.class_code = last.code /\ r1.question = last.q
          /\ r1.teacher_id = "teacher-2"
          /\ r2.class_code # last.code /\ r2.question # last.q
    /\ students # {} /\ answers # {}

\* C14: get_classroom_info returns None exactly for a code with no classroom
\* row, and otherwise the row's code, teacher_id, status and question; the
\* question it reports for a code changes only by a successful
\* create_classroom or update_classroom_question for that code, to that
\* call's question.
C14_InfoStep ==
    \A c \in Codes :
        LET before == get_classroom_info(classrooms, c, FALSE)
            after == get_classroom_info(classrooms', c, FALSE)
        IN IF /\ last'.op \in {"create_classroom", "update_classroom_question"}
              /\ last'.ret /\ last'.code = c /\ after.found
           THEN /\ after.question = last'.q
                /\ before.found => /\ after.teacher_id = before.teacher_id
                                   /\ after.status = before.status
           ELSE after = before

C14_InfoIsLastWrite ==
    /\ [](\A c \in Codes :
            LET info == get_classroom_info(classrooms, c, FALSE)
            IN /\ info.found <=> RowsOf(c) # {}
               /\ ~info.found => info = NoInfo
               /\ info.found => \E r \in RowsOf(c) :
                                    /\ info.class_code = c
                                    /\ info.teacher_id = r.teacher_id
                                    /\ info.status = r.status
                                    /\ info.question = r.question)
    /\ [][C14_InfoStep]_vars

\* the closed classroom's question was overwritten after its creation and
\* is the one reported, while the other code has no row and reports None
C14_Witness ==
    /\ last.op = "update_classroom_question" /\ last.ret /\ last.code = "CD34"
    /\ get_classroom_info(classrooms, "CD34", FALSE).question = "Why is Y?"
    /\ get_classroom_info(classrooms, "CD34", FALSE).status = "closed"
    /\ get_classroom_info(classrooms, "AB12", FALSE) = NoInfo

\* the stored answer rows for a classroom and question
MatchingAnswers(class_code, question) ==
    {a \in answers : a.class_code = class_code /\ a.question = question}

\* C15: get_answers_for_question returns one entry per stored answer row of
\* the classroom and question, none for any other row, later rows first.
C15_AllMatchingNewestFirst ==
    \A c \in Codes, q \in Questions :
        LET out == get_answers_for_question(answers, students, c, q, FALSE)
        IN /\ Len(out) = Cardinality(MatchingAnswers(c, q))
           /\ \A a \in MatchingAnswers(c, q) :
                 \E i \in 1..Len(out) : /\ out[i].submitted_at = a.id
                                        /\ out[i].student_id = a.student_id
                                        /\ out[i].answer = a.answer
           /\ \A i, j \in 1..Len(out) : i < j => out[i].submitted_at > out[j].submitted_at

\* C16: every stored answer (all are written with three non-empty
\* suggestions) is in the list get_answers_for_question returns for its
\* classroom and question, with its answer text and its suggestions in order.
C16_RoundTrip ==
    \A a \in answers :
        LET out == get_answers_for_question(answers, students, a.class_code, a.question, FALSE)
        IN \E i \in 1..Len(out) :
              /\ out[i].submitted_at = a.id
              /\ out[i].answer = a.answer
              /\ Len(out[i].suggestions) <= 3
              /\ out[i].suggestions = a.suggestions.items

\* the same round trip for the answers of students that have a student row
RoundTripOfJoinedStudents ==
    \A a \in JoinedAnswers(answers, students) :
        LET out == get_answers_for_question(answers, students, a.class_code, a.question, FALSE)
        IN /\ \E i \in 1..Len(out) :
                 /\ out[i].submitted_at = a.id
                 /\ out[i].answer = a.answer
                 /\ out[i].suggestions = a.suggestions.items
           /\ \A i, j \in 1..Len(out) : i < j => out[i].submitted_at > out[j].submitted_at

\* the seven operations with a try/except end neutrally on a storage error
CaughtFailuresAreNeutral ==
    (last.fault /\ last.op # "get_classroom_students")
        => last.out \in {"false", "null", "empty"}

\* C17: a gateway call that hits a storage error ends by returning false,
\* None or an empty collection.
C17_FailuresAreNeutral ==
    last.fault => last.out \in {"false", "null", "empty"}

\* the session is in VideoRequested: a video is being generated for the
\* answered question and there is a request id to poll
VideoRequested(st) ==
    /\ Truthy(st.class_code) /\ Truthy(st.current_question) /\ st.answer_submitted
    /\ st.generating_video /\ Truthy(st.video_request_id)

\* the poll block makes no status request in this state
NoPollIssued(st) == ~(st.generating_video /\ Truthy(st.video_request_id))

VideoRecoverable(st) ==
    /\ Truthy(st.current_question) /\ st.answer_submitted
    /\ st.video_url = None /\ ~st.generating_video
    /\ Visible(st, "gen_video")

C20_IdleHoldsNothing ==
    \A s \in Sessions :
        sess[s].class_code = None =>
            /\ sess[s].student_id = None
            /\ sess[s].current_question = None
            /\ ~sess[s].answer_submitted
            /\ sess[s].video_request_id = None
            /\ sess[s].video_url = None
            /\ ~sess[s].generating_video

(* ------------------------- C21: role ownership ------------------------- *)

StoredPayloads ==
    {json_dumps(<<<<"Add an example">>>>), json_dumps(<<>>),
     [json |-> "string", items |-> <<>>], [json |-> "object", items |-> <<>>],
     [json |-> "invalid", items |-> <<>>], [json |-> "empty", items |-> <<>>]}

\* a database file with one classroom, one joined student and one or two
\* answer rows whose payloads were written by any caller of the file
InitReads ==
    /\ sess = [s \in Sessions |-> InitSession(None, None)]
    /\ teacher = InitTeacher
    /\ last = NoCall
    /\ aicall = NoAICall
    /\ conn = [k \in Connections |-> NoStatement]
    /\ classrooms = {[id |-> 1, class_code |-> "AB12", teacher_id |-> "teacher-1",
                      question |-> "Why is X?", status |-> "active"]}
    /\ students = {[id |-> 1, student_id |-> "S-0001", class_code |-> "AB12"]}
    /\ \E n \in 1..MaxStoredAnswers :
          \E sid \in [1..n -> StudentIds], payload \in [1..n -> StoredPayloads] :
              answers = {[id |-> i, student_id |-> sid[i], class_code |-> "AB12",
                          question |-> "Why is X?", answer |-> <<"a">>, score |-> 70,
                          feedback |-> "Thank you for your answer.",
                          suggestions |-> payload[i]] : i \in 1..n}

\* the teacher view reading the answers of a question
DbGetAnswersForQuestion(class_code, question) ==
    /\ last' = [NoCall EXCEPT
                   !.op = "get_answers_for_question", !.code = class_code, !.q = question,
                   !.out = ListOut(get_answers_for_question(answers, students, class_code,
                                                            question, FALSE))]
    /\ UNCHANGED <<conn, aicall, classrooms, students, answers, sess, teacher>>

ReadsNext ==
    \/ \E c \in Codes, q \in Questions : DbGetAnswersForQuestion(c, q)
    \/ \E i \in StudentIds, c \in Codes : DbAddStudent(i, c)
    \/ \E i \in StudentIds, c \in Codes : DbSaveAnswer(i, c, "Why is X?", <<"a">>)

SpecReads == InitReads /\ [][ReadsNext]_vars

\* the payload is not valid JSON, is not a list, or is empty
Malformed(column) == column.json # "list" \/ column.items = <<>>

\* C22: get_answers_for_question returns every answer row of the question
\* whose student is stored, whatever the rows' suggestions payloads are, and
\* a row whose payload is not valid JSON, not a list or empty is returned
\* with an empty suggestions list
C22_MalformedPayloadGivesEmptyList ==
    last.op = "get_answers_for_question" =>
        LET res == get_answers_for_question(answers, students, last.code, last.q, FALSE)
        IN \A a \in answers :
              (/\ a.class_code = last.code /\ a.question = last.q
               /\ \E r \in students : r.student_id = a.student_id)
              => \E i \in 1..Len(res) :
                    /\ res[i].submitted_at = a.id
                    /\ res[i].answer = a.answer
                    /\ Malformed(a.suggestions) => res[i].suggestions = <<>>
                    /\ ~Malformed(a.suggestions) => res[i].suggestions = a.suggestions.items

\* a read that returned two rows, one whose payload is not JSON and one with
\* a stored suggestion
C22_Witness ==
    /\ last.op = "get_answers_for_question" /\ last.out = "value"
    /\ \E a, b \in JoinedAnswers(answers, students) :
          /\ a.class_code = last.code /\ a.question = last.q
          /\ b.class_code = last.code /\ b.question = last.q
          /\ a.suggestions.json = "invalid"
          /\ b.suggestions = json_dumps(<<<<"Add an example">>>>)

(* --------------- the gateway on concurrent connections ----------------- *)

\* INSERT INTO classrooms on a table without UNIQUE(class_code)
InsertClassroomNoUnique(cls, class_code, teacher_id, question) ==
    [error |-> "none",
     classrooms |-> cls \cup {[id |-> NextRowId(cls), class_code |-> class_code,
                               teacher_id |-> teacher_id, question |-> question,
                               status |-> "active"]}]

\* INSERT INTO classrooms and commit: class_code TEXT UNIQUE makes SQLite
\* reject a second row with the code (sqlite3.IntegrityError)
InsertClassroom(cls, class_code, teacher_id, question) ==
    IF \E r \in cls : r.class_code = class_code
    THEN [error |-> "IntegrityError", classrooms |-> cls]
    ELSE [error |-> "none",
          classrooms |-> cls \cup {[id |-> NextRowId(cls), class_code |-> class_code,
                                    teacher_id |-> teacher_id, question |-> question,
                                    status |-> "active"]}]

\* the status check of add_student left out: every classroom counts as active
SelectStatusAlwaysActive(cls, class_code) == "active"

\* SELECT status FROM classrooms WHERE class_code = ?, then fetchone()[0];
\* fetchone() is None when no row matches, and None[0] is a TypeError
SelectStatus(cls, class_code) ==
    IF \E r \in cls : r.class_code = class_code
    THEN (CHOOSE r \in cls : r.class_code = class_code).status
    ELSE "TypeError"

\* INSERT INTO students and commit on a connection with foreign_keys = ON:
\* rejected when no classroom row has the class_code (FOREIGN KEY) or the
\* student_id is stored already (UNIQUE)
InsertStudent(cls, studs, student_id, class_code) ==
    IF (~\E r \in cls : r.class_code = class_code)
       \/ (\E r \in studs : r.student_id = student_id)
    THEN [error |-> "IntegrityError", students |-> studs]
    ELSE [error |-> "none",
          students |-> studs \cup {[id |-> NextRowId(studs), student_id |-> student_id,
                                    class_code |-> class_code]}]

\* connection k executes a statement and its call becomes call: the calls
\* in progress on the other connections have been overlapped
Statement(k, call) ==
    conn' = [j \in Connections |->
                IF j = k THEN call
                ELSE IF conn[j].next # "return" THEN [conn[j] EXCEPT !.overlapped = TRUE]
                ELSE conn[j]]

\* create_classroom, first statement: SELECT COUNT(*)
CreateCount(k, class_code, question) ==
    /\ conn[k].next = "return"
    /\ LET call == [NoStatement EXCEPT !.op = "create_classroom", !.code = class_code,
                                       !.q = question]
       IN Statement(k, IF CountClassrooms(classrooms, class_code) > 0 THEN call
                       ELSE [call EXCEPT !.next = "insert"])
    /\ UNCHANGED <<aicall, classrooms, students, answers, sess, teacher, last>>

\* create_classroom, second statement: the INSERT; an IntegrityError is a
\* sqlite3.Error, which the function catches and answers with False
CreateInsert(k) ==
    /\ conn[k].op = "create_classroom" /\ conn[k].next = "insert"
    /\ LET r == InsertClassroom(classrooms, conn[k].code, "teacher-1", conn[k].q)
       IN /\ classrooms' = r.classrooms
          /\ Statement(k, [conn[k] EXCEPT !.next = "return", !.ret = (r.error = "none")])
    /\ UNCHANGED <<aicall, students, answers, sess, teacher, last>>

\* add_student, first statements: the pragma and SELECT COUNT(*)
AddCount(k, student_id, class_code) ==
    /\ conn[k].next = "return"
    /\ LET call == [NoStatement EXCEPT !.op = "add_student", !.code = class_code,
                                       !.sid = student_id]
       IN Statement(k, IF CountClassrooms(classrooms, class_code) = 0 THEN call
                       ELSE [call EXCEPT !.next = "status"])
    /\ UNCHANGED <<aicall, classrooms, students, answers, sess, teacher, last>>

\* add_student, second statement: SELECT status
AddStatus(k) ==
    /\ conn[k].op = "add_student" /\ conn[k].next = "status"
    /\ LET status == SelectStatus(classrooms, conn[k].code)
       IN Statement(k, IF status = "TypeError"
                       THEN [conn[k] EXCEPT !.next = "return", !.raised = TRUE]
                       ELSE IF status # "active" THEN [conn[k] EXCEPT !.next = "return"]
                       ELSE [conn[k] EXCEPT !.next = "insert"])
    /\ UNCHANGED <<aicall, classrooms, students, answers, sess, teacher, last>>

\* add_student, third statement: the INSERT, False on an IntegrityError
AddInsert(k) ==
    /\ conn[k].op = "add_student" /\ conn[k].next = "insert"
    /\ LET r == InsertStudent(classrooms, students, conn[k].sid, conn[k].code)
       IN /\ students' = r.students
          /\ Statement(k, [conn[k] EXCEPT !.next = "return", !.ret = (r.error = "none")])
    /\ UNCHANGED <<aicall, classrooms, answers, sess, teacher, last>>

\* update_classroom_question: one UPDATE statement
ConnUpdateClassroomQuestion(k, class_code, question) ==
    /\ conn[k].next = "return"
    /\ LET r == update_classroom_question(classrooms, class_code, question, FALSE)
       IN /\ classrooms' = r.classrooms
          /\ Statement(k, [NoStatement EXCEPT !.op = "update_classroom_question",
                                              !.code = class_code, !.q = question,
                                              !.ret = r.ret])
    /\ UNCHANGED <<aicall, students, answers, sess, teacher, last>>

ConcurrentNext ==
    \/ \E k \in Connections, c \in Codes : CreateCount(k, c, "Why is X?")
    \/ \E k \in Connections : CreateInsert(k)
    \/ \E k \in Connections, i \in StudentIds, c \in Codes : AddCount(k, i, c)
    \/ \E k \in Connections : AddStatus(k)
    \/ \E k \in Connections : AddInsert(k)
    \/ \E k \in Connections, c \in Codes : ConnUpdateClassroomQuestion(k, c, "Why is Y?")

\* gateway calls of two sessions, interleaved statement by statement
SpecConcurrent == InitGateway /\ [][ConcurrentNext]_vars

(* ----------------- C23: join against a checked classroom --------------- *)

\* C23: however the statements of concurrent gateway calls interleave, every
\* student row that a step inserts names a classroom that exists and is
\* active in the store at that step
C23_InsertOnlyIntoActiveClassroom ==
    [][\A r \in students' \ students :
          \E c \in classrooms : c.class_code = r.class_code /\ c.status = "active"]_vars

\* an add_student call returned true after another connection ran statements
\* between its checks and its INSERT
C23_Witness ==
    \E k \in Connections :
        /\ conn[k].op = "add_student" /\ conn[k].next = "return"
        /\ conn[k].ret /\ conn[k].overlapped
        /\ \E r \in students : r.student_id = conn[k].sid /\ r.class_code = conn[k].code

(* ------------------ C24: concurrent create_classroom ------------------- *)

\* C24: when create_classroom calls with the same code run on two
\* connections with their statements interleaved, at most one call returns
\* true, no call leaves as an exception, the store never holds two rows
\* with one code, and once both calls returned exactly one row has the code
C24_OneCreateWins ==
    /\ \A c \in Codes : CountClassrooms(classrooms, c) <= 1
    /\ \A k \in Connections : conn[k].op = "create_classroom" => ~conn[k].raised
    /\ \A j, k \in Connections :
          (/\ j # k
           /\ conn[j].op = "create_classroom" /\ conn[k].op = "create_classroom"
           /\ conn[j].code = conn[k].code
           /\ conn[j].next = "return" /\ conn[k].next = "return")
          => /\ ~(conn[j].ret /\ conn[k].ret)
             /\ CountClassrooms(classrooms, conn[j].code) = 1

\* both calls passed the existence check before either INSERT ran: one
\* returned true, the other met the UNIQUE constraint and returned false
C24_Witness ==
    \E j, k \in Connections :
        /\ j # k
        /\ conn[j].op = "create_classroom" /\ conn[k].op = "create_classroom"
        /\ conn[j].code = conn[k].code
        /\ conn[j].next = "return" /\ conn[k].next = "return"
        /\ conn[j].ret /\ conn[j].overlapped
        /\ ~conn[k].ret /\ conn[k].overlapped

(* ------------------------ the teacher session -------------------------- *)

\* texts a Save Changes may find in the text area
EditedTexts == Questions \cup {""}

\* every handler of the teacher view; no student is connected and the
\* storage layer does not fail
TeacherViewNext ==
    \/ \E text \in Questions : Len(teacher.questions) < MaxDrafts /\ AddThisQuestion(text)
    \/ \E i \in 0..(MaxDrafts - 1) : TeacherEdit(i)
    \/ \E edited \in EditedTexts : TeacherSaveChanges(edited, FALSE)
    \/ TeacherCancelEditing
    \/ \E i \in 0..(MaxDrafts - 1) : TeacherDelete(i)
    \/ \E i \in 0..(MaxDrafts - 1) : TeacherMoveUp(i)
    \/ \E i \in 0..(MaxDrafts - 1) : TeacherMoveDown(i)
    \/ TeacherConfirmDelete(FALSE)
    \/ TeacherCancelDelete
    \/ \E i \in 0..(MaxDrafts - 1) : TeacherSelect(i, FALSE)
    \/ TeacherPrevious(FALSE)
    \/ TeacherNext(FALSE)
    \/ TeacherEndClass
    \/ \E new_code \in Codes : TeacherGenerateClassCode(new_code, FALSE)

SpecTeacher == InitGateway /\ [][TeacherViewNext]_vars

(* -------------- C25: the persisted question is the pointer's ----------- *)

\* the pointer designates an entry of the list
PointerValid(t) == t.current_question_index \in 0..(Len(t.questions) - 1)

\* C25: while the teacher has a class open and the question list is not
\* empty, the question stored in the classroom row is the pointed-to entry
\* questions[current_question_index]
C25_PersistedIsPointed ==
    (Truthy(teacher.class_code) /\ teacher.questions # <<>>) =>
        /\ PointerValid(teacher)
        /\ \A r \in classrooms :
              r.class_code = teacher.class_code
              => r.question = QuestionAt(teacher, teacher.current_question_index)

(* --------------- C26: which handlers push the question ----------------- *)

\* a step that changes the stored question of the class the teacher has open
PersistedQuestionChanges ==
    /\ Truthy(teacher.class_code)
    /\ teacher'.class_code = teacher.class_code
    /\ classrooms' # classrooms

\* Select Question, Previous Question or Next Question
NavigateStep ==
    \/ \E i \in 0..(MaxDrafts - 1) : TeacherSelect(i, FALSE)
    \/ TeacherPrevious(FALSE)
    \/ TeacherNext(FALSE)

\* Confirm Delete of the pointed-to question
DeletePointedStep ==
    /\ teacher.delete_confirm = teacher.current_question_index
    /\ TeacherConfirmDelete(FALSE)

\* Save Changes on the pointed-to question
SavePointedStep ==
    /\ teacher.editing_question_index = teacher.current_question_index
    /\ \E edited \in EditedTexts : TeacherSaveChanges(edited, FALSE)

\* C26 as stated: the stored question of the open class changes only in a
\* navigation step or in the deletion of the pointed-to question; adding,
\* editing, reordering and deleting another question leave it unchanged
C26_OnlyNavigateAndDeletePush ==
    [][PersistedQuestionChanges => (NavigateStep \/ DeletePointedStep)]_vars

\* C26, amended: the stored question of the open class changes only in a
\* navigation step, in the deletion of the pointed-to question or in Save
\* Changes on the pointed-to question; adding a question, editing or
\* deleting another question and reordering leave it unchanged
C26_OnlyPointedTextChangesPush ==
    [][PersistedQuestionChanges =>
          (NavigateStep \/ DeletePointedStep \/ SavePointedStep)]_vars

\* Save Changes on the pointed-to question of an open class pushed the
\* edited text
C26_Witness ==
    /\ last.op = "save_changes" /\ last.ret
    /\ Truthy(teacher.class_code)
    /\ last.i = teacher.current_question_index
    /\ \E r \in classrooms :
          /\ r.class_code = teacher.class_code
          /\ r.question = QuestionAt(teacher, last.i)

(* ------------------ C27: the pointer after a deletion ------------------ *)

\* C27: a Confirm Delete step removes exactly the entry at delete_confirm.
\* When that entry was the pointed-to one and the list stays non-empty, the
\* pointer keeps its index if that is still valid and is the new last index
\* otherwise, current_question is the entry now at the pointer, and with a
\* class open the classroom row holds that text. When the entry was below
\* the pointer, the pointer goes down by one and designates the same text
C27_DeleteMovesPointer ==
    [][last'.op = "confirm_delete" =>
          LET i == teacher.delete_confirm
              p == teacher.current_question_index
              qs == teacher.questions
              after == teacher'.questions
              q == teacher'.current_question_index
          IN /\ Len(after) = Len(qs) - 1
             /\ \A k \in 1..Len(after) : after[k] = IF k <= i THEN qs[k] ELSE qs[k + 1]
             /\ (i = p /\ after # <<>>) =>
                   /\ q = IF i <= Len(after) - 1 THEN i ELSE Len(after) - 1
                   /\ teacher'.current_question = after[q + 1]
                   /\ Truthy(teacher.class_code) =>
                         \A r \in classrooms' :
                            r.class_code = teacher.class_code => r.question = after[q + 1]
             /\ i < p => /\ q = p - 1
                         /\ after[q + 1] = qs[p + 1]
                         /\ classrooms' = classrooms]_vars

\* the pointed-to last entry of a three-question list was deleted while a
\* class was open: the pointer moved to the new last index and the text was
\* pushed
C27_Witness ==
    /\ last.op = "confirm_delete" /\ last.ret /\ last.i = 2
    /\ Len(teacher.questions) = 2
    /\ teacher.current_question_index = 1
    /\ \E r \in classrooms :
          r.class_code = teacher.class_code /\ r.question = teacher.questions[2]

(* --------------------------- C28: reordering --------------------------- *)

\* C28: a Move Up or Move Down step on index i exchanges the entry at i with
\* its neighbour (i-1 for up, i+1 for down), leaves every other entry and
\* the length of the list as they were, and leaves the text the pointer
\* designates, the cached current question and the classroom rows unchanged
C28_ReorderKeepsPointedText ==
    [][last'.op \in {"move_up", "move_down"} =>
          LET i == last'.i
              j == IF last'.op = "move_up" THEN i - 1 ELSE i + 1
              qs == teacher.questions
              after == teacher'.questions
          IN /\ Len(after) = Len(qs)
             /\ j \in 0..(Len(qs) - 1)
             /\ after[i + 1] = qs[j + 1] /\ after[j + 1] = qs[i + 1]
             /\ \A k \in 1..Len(qs) : k \notin {i + 1, j + 1} => after[k] = qs[k]
             /\ PointerValid(teacher) =>
                   /\ PointerValid(teacher')
                   /\ QuestionAt(teacher', teacher'.current_question_index)
                         = QuestionAt(teacher, teacher.current_question_index)
             /\ teacher'.current_question = teacher.current_question
             /\ classrooms' = classrooms]_vars

\* the pointed-to middle entry of three questions, the first two different,
\* was moved up: the pointer followed it to the first slot
C28_Witness ==
    /\ last.op = "move_up" /\ last.i = 1
    /\ Len(teacher.questions) = 3
    /\ teacher.current_question_index = 0
    /\ teacher.questions[1] # teacher.questions[2]
    /\ teacher.current_question = teacher.questions[1]

(* ------------------ C29: the status polling loop ----------------------- *)

\* a script run of a session that is generating a video (the rerun issued
\* after the 2 second sleep, or any later run): the automatic check, then
\* the poll block with the provider answering pv; last.i is the parity of the
\* number of status requests made so far
StudentPoll(s, pv) ==
    /\ Truthy(sess[s].class_code)
    /\ sess[s].pending = "idle"
    /\ sess[s].generating_video /\ Truthy(sess[s].video_request_id)
    /\ sess' = [sess EXCEPT ![s] = Body(AutoCheck(@, Info(s, FALSE)), "none", "error", pv).st]
    /\ last' = [NoCall EXCEPT !.op = "get_video_status", !.out = pv,
                              !.i = IF last.op = "get_video_status" THEN 1 - last.i ELSE 0]
    /\ UNCHANGED <<conn, aicall, classrooms, students, answers, teacher>>

\* a class with one question, a student who answers it and asks for a video,
\* and the status polls; while a video is being generated the student waits
PollingNext ==
    \/ \E text \in Questions : TeacherAddQuestion(text)
    \/ \E new_code \in Codes : TeacherGenerateClassCode(new_code, FALSE)
    \/ \E s \in Sessions, code \in Codes, sid \in StudentIds : StudentJoin(s, code, sid, FALSE)
    \/ \E s \in Sessions, text \in AnswerInputs, resp \in AIResponses :
          StudentSubmit(s, text, resp, FALSE)
    \/ \E s \in Sessions, ev \in LocalEvents :
          /\ ~(sess[s].generating_video /\ Truthy(sess[s].video_request_id))
          /\ \E cv \in CreateOutcomesFor(ev) : StudentRun(s, ev, cv, "other", FALSE)
    \/ \E s \in Sessions, pv \in PollOutcomes : StudentPoll(s, pv)

\* ... when a session that is generating a video keeps being re-run, the
\* provider being free in what it answers
SpecPolling ==
    /\ Init /\ [][PollingNext]_vars
    /\ \A s \in Sessions : WF_vars(\E pv \in PollOutcomes : StudentPoll(s, pv))

\* C29: a session in VideoRequested leaves VideoRequested after finitely
\* many status polls, whatever statuses the provider returns
C29_PollingEnds ==
    \A s \in Sessions : VideoRequested(sess[s]) ~> ~VideoRequested(sess[s])

(* ------------------- the suggestion filters, site by site -------------- *)

\* the text holds one of the listed substrings
ContainsAny(parts, text) == \E part \in parts : Contains(part, text)

\* render_ai_feedback keeps the suggestion: not blank; none of the listed
\* characters and character pairs (fullwidth comma, ideographic full stop,
\* xue, sheng, qing, ni, zhao, wufa, dianji); no angle bracket; none of the
\* phrases reload, refresh button, find the, student click in the lower-cased
\* text
RenderKeeps(text) ==
    /\ Strip(text) # <<>>
    /\ ~ContainsAny({<<"U+FF0C">>, <<"U+3002">>, <<"U+5B66">>, <<"U+751F">>, <<"U+8BF7">>,
                     <<"U+4F60">>, <<"U+627E">>, <<"U+65E0", "U+6CD5">>,
                     <<"U+70B9", "U+51FB">>}, Strip(text))
    /\ ~ContainsAny({<<"<">>, <<">">>}, Strip(text))
    /\ ~ContainsAny({<<"r", "e", "l", "o", "a", "d">>,
                     <<"r", "e", "f", "r", "e", "s", "h", " ", "b", "u", "t", "t", "o", "n">>,
                     <<"f", "i", "n", "d", " ", "t", "h", "e">>,
                     <<"s", "t", "u", "d", "e", "n", "t", " ", "c", "l", "i", "c", "k">>},
                    Lower(Strip(text)))

\* debug_sanitize_suggestions keeps the suggestion: the item as it is (not
\* stripped, an empty one included) holds none of fullwidth comma, xuesheng,
\* dianji, qingni
DebugKeeps(text) ==
    ~ContainsAny({<<"U+FF0C">>, <<"U+5B66", "U+751F">>, <<"U+70B9", "U+51FB">>,
                  <<"U+8BF7", "U+4F60">>}, text)

\* the functions that filter a list of suggestions
FilterSites == {"evaluate_answer", "get_answers_for_question",
                "debug_sanitize_suggestions", "render_ai_feedback"}

\* the site keeps a suggestion that is a string
SiteKeeps(site, text) ==
    CASE site = "evaluate_answer" -> KeepSuggestion(JStr(text))
      [] site = "get_answers_for_question" -> TruthyItems(<<text>>) # <<>>
      [] site = "debug_sanitize_suggestions" -> DebugKeeps(text)
      [] site = "render_ai_feedback" -> RenderKeeps(text)

\* the entries of the list the site keeps, before it cuts, pads or
\* substitutes defaults
RECURSIVE Kept(_, _)
Kept(site, items) ==
    IF items = <<>> THEN <<>>
    ELSE IF SiteKeeps(site, Head(items)) THEN <<Head(items)>> \o Kept(site, Tail(items))
         ELSE Kept(site, Tail(items))

\* suggestions an AI response or a stored payload may hold
SuggestionTexts ==
    {<<"Add an example">>, ClickRefresh, <<" ">>, <<>>, <<"Use ", "<", "b", ">">>,
     <<"Add", "U+FF0C">>, <<"U+5B66", "x">>, <<"r", "e", "l", "o", "a", "d">>}

\* most suggestions in a list given to a filter
MaxFiltered == 2

\* one site filtering one list
FilterAtSite(site, items) ==
    /\ aicall.op = "none"
    /\ aicall' = [NoAICall EXCEPT !.op = "filter", !.site = site, !.lines = items,
                                  !.suggestions = Kept(site, items)]
    /\ UNCHANGED <<conn, classrooms, students, answers, sess, teacher, last>>

FiltersNext ==
    \/ \E site \in FilterSites, n \in 0..MaxFiltered :
          \E items \in [1..n -> SuggestionTexts] : FilterAtSite(site, items)
    \/ AiReturn

SpecFilters == InitGateway /\ [][FiltersNext]_vars

(* ---------------- C30: one filter rule at every site ------------------- *)

\* C30: whichever site filters a list of suggestions, it keeps the entries
\* that every other site keeps of the same list and drops the entries that
\* every other site drops
C30_SameFilterEverywhere ==
    aicall.op = "filter" =>
        \A site \in FilterSites : Kept(site, aicall.lines) = aicall.suggestions

(* ------------------- the normalizer's suggestion list ------------------ *)

\* the value json.loads (or the fallback chunk) yields for a response text
ParsedEvaluation(text) ==
    LET evaluation_text == ExtractFenced(text)
        first == json_loads(evaluation_text)
    IN IF first.ok THEN first ELSE JsonChunk(evaluation_text)

HasMarkup(text) == \E i \in 1..Len(text) : text[i] \in {"<", ">"}

\* C31: no suggestion returned by evaluate_answer contains '<' or '>': a
\* suggestion of the response holding either character is dropped before
\* the list is padded.
C31_NoMarkupInSuggestions ==
    aicall.op = "evaluate_answer" =>
        \A i \in 1..Len(aicall.suggestions) : ~HasMarkup(aicall.suggestions[i])

\* the first three entries of survivors, then the defaults that are not
\* among them, in default order, cut after three entries
PaddedTo3(survivors, defaults) ==
    LET kept == FirstThree(survivors)
        missing(d) == ~InSeq(d, kept)
    IN FirstThree(kept \o SelectSeq(defaults, missing))

NoRepeatedDefault(suggestions, defaults) ==
    \A k \in 1..Len(defaults) :
        Cardinality({i \in 1..Len(suggestions) : suggestions[i] = defaults[k]}) <= 1

\* C32: the list returned is the first 3 filtered survivors in their order,
\* followed, when fewer than 3 survived, by the default suggestions in
\* default order without those already present, until 3 are held; it has
\* exactly 3 entries and holds no default twice. This is so for the padding
\* of evaluate_answer and for the one of get_simple_suggestions.
C32_PaddingFillsToThree ==
    /\ (aicall.op = "evaluate_answer" /\ aicall.ok
            /\ ParsedEvaluation(aicall.text).ok
            /\ ParsedEvaluation(aicall.text).v.t = "object"
            /\ ParsedEvaluation(aicall.text).v.suggestions.t = "list") =>
          LET survivors == CleanSuggestions(ParsedEvaluation(aicall.text).v.suggestions.l)
          IN /\ aicall.suggestions = PaddedTo3(survivors, evaluation_suggestions)
             /\ Len(aicall.suggestions) = 3
             /\ NoRepeatedDefault(aicall.suggestions, evaluation_suggestions)
    /\ (aicall.op = "get_simple_suggestions" /\ aicall.ok) =>
          /\ aicall.suggestions = PaddedTo3(ParseLines(aicall.lines), default_suggestions)
          /\ Len(aicall.suggestions) = 3
          /\ NoRepeatedDefault(aicall.suggestions, default_suggestions)

\* one survivor that is the second default was kept in front and the first
\* and third default were appended behind it
C32_Witness ==
    /\ aicall.op = "get_simple_suggestions" /\ aicall.ok
    /\ ParseLines(aicall.lines) = <<default_suggestions[2]>>
    /\ aicall.suggestions =
           <<default_suggestions[2], default_suggestions[1], default_suggestions[3]>>

\* the response holds no JSON object at all
NoObjectIn(text) == ~\E i \in 1..Len(text) : text[i].k = "json" /\ text[i].v.t = "object"

\* C33: when the provider call raised, or the response holds no parseable
\* JSON object, evaluate_answer returns one of its two fixed default
\* evaluations: score 0.5, a fixed feedback sentence and three fixed
\* suggestions, none of it taken from the response or the exception.
C33_FailureGivesDefaultEvaluation ==
    (aicall.op = "evaluate_answer"
        /\ (~aicall.ok \/ NoObjectIn(aicall.text) \/ ~ParsedEvaluation(aicall.text).ok)) =>
        /\ aicall.score = 50
        /\ Len(aicall.suggestions) = 3
        /\ \E d \in {parse_default, error_default} :
              aicall.feedback = d.feedback /\ aicall.suggestions = d.suggestions

\* a response that is a JSON list, not an object, was answered with the
\* default evaluation of the outermost except
C33_Witness ==
    /\ aicall.op = "evaluate_answer" /\ aicall.ok
    /\ aicall.text = <<Json(NonObject("list"))>>
    /\ aicall.feedback = error_default.feedback
    /\ aicall.score = 50

(* --------------- the teacher's pointer and cached question ------------- *)

\* C34: in every state of the teacher session the pointer is in range:
\* current_question_index is -1 exactly when the question list is empty and
\* otherwise lies in 0 .. len(questions) - 1.
C34_PointerInRange ==
    /\ (teacher.current_question_index = -1) <=> (teacher.questions = <<>>)
    /\ teacher.questions # <<>> => PointerValid(teacher)

\* the first of three questions was deleted while the pointer was on the
\* last one: the pointer moved down with it
C34_Witness ==
    /\ last.op = "confirm_delete" /\ last.i = 0
    /\ Len(teacher.questions) = 2
    /\ teacher.current_question_index = 1

\* C35: whenever current_question is set, it is the text of the pointed-to
\* entry questions[current_question_index].
C35_CachedQuestionIsPointed ==
    teacher.current_question # None =>
        /\ PointerValid(teacher)
        /\ teacher.current_question = QuestionAt(teacher, teacher.current_question_index)

\* C36: a classroom row that a Generate Class Code step adds has a question
\* that is not null and is the pointed-to entry questions[current_question_index]
\* of that moment.
C36_CreatedRowStep ==
    \A r \in classrooms' :
        r.class_code \notin {x.class_code : x \in classrooms} =>
            /\ r.question # None
            /\ PointerValid(teacher)
            /\ r.question = QuestionAt(teacher, teacher.current_question_index)

C36_CreatedRowHasPointedQuestion == [][C36_CreatedRowStep]_vars

\* where the entry at position p is after questions[i] and questions[j]
\* were exchanged
PositionAfterSwap(p, i, j) == IF p = i THEN j ELSE IF p = j THEN i ELSE p

\* C37: while a deletion waits for its confirmation, delete_confirm keeps
\* designating the entry whose Delete button was clicked: a Move Up or Move
\* Down in between, exchanging two different texts, moves it along with
\* that entry, so that it designates the same text before and after; Confirm
\* Delete then removes the designated entry and shortens the list by
\* exactly one.
C37_PendingDeleteStep ==
    /\ (last'.op \in {"move_up", "move_down"} /\ teacher.delete_confirm # -1) =>
          LET i == last'.i
              j == IF last'.op = "move_up" THEN i - 1 ELSE i + 1
          IN QuestionAt(teacher, i) # QuestionAt(teacher, j) =>
                 /\ teacher'.delete_confirm = PositionAfterSwap(teacher.delete_confirm, i, j)
                 /\ QuestionAt(teacher', teacher'.delete_confirm)
                        = QuestionAt(teacher, teacher.delete_confirm)
    /\ last'.op = "confirm_delete" =>
          /\ teacher'.questions = Pop(teacher.questions, teacher.delete_confirm)
          /\ Len(teacher'.questions) = Len(teacher.questions) - 1

C37_ConfirmDeleteRemovesSelected == [][C37_PendingDeleteStep]_vars

(* ------------------- joined sessions and student rows ------------------ *)

\* the student row add_student wrote for this pair
Enrolled(student_id, class_code) ==
    \E r \in students : r.student_id = student_id /\ r.class_code = class_code

\* C38: a student session holds a class code and a student id only when
\* add_student has written the student row of that pair, whichever way the
\* session was initialised, and every stored answer belongs to a student
\* row of its classroom.
C38_JoinedOnlyAfterAddStudent ==
    /\ \A s \in Sessions :
          (Truthy(sess[s].class_code) /\ Truthy(sess[s].student_id))
              => Enrolled(sess[s].student_id, sess[s].class_code)
    /\ \A a \in answers : Enrolled(a.student_id, a.class_code)

(* --------------------- the video generation flags ---------------------- *)

\* C39: in every state of a student session, generating_video is set only
\* together with a video_request_id, so that a video marked as in progress
\* can be polled, and a session that holds a video_url is not generating.
C39_GeneratingHasRequestId ==
    \A s \in Sessions :
        /\ sess[s].generating_video => Truthy(sess[s].video_request_id)
        /\ Truthy(sess[s].video_url) => ~sess[s].generating_video

====
